---- MODULE Spec2Model ----
(***************************************************************************)
(* Model of the Blend2D-compatible benchmark harness for Vello CPU         *)
(* (sparse_strips/vello_bench_blend2d and sparse_strips/vello_bench).      *)
(*                                                                         *)
(*   Spec         run_single_test (the calibration algorithm) driving a    *)
(*                `dyn Backend` whose run() reports an arbitrary duration  *)
(*   LiveSpec     the same, with the fairness of sequential execution      *)
(*   SpecBackend  VelloBackend::run with its three BenchRandom streams     *)
(*   SpecRandom   one BenchRandom: new, rewind and the four draw methods   *)
(*   SpecSum      one BaselineSum: push and finish                         *)
(*   SpecFilter   parse_toggle_list on one --tests value                   *)
(*   SpecCell     CellData::new, format_cpms and format_cell on one cell   *)
(*   SpecBaseline Baseline::load on one file, then Baseline::lookup        *)
(*   SpecThreads  from_args and create_backends on one --threads list      *)
(*   SpecApp      run: from_args, BenchRunner::new, run and run_backend,   *)
(*                 beside the same run started without --baseline          *)
(***************************************************************************)
EXTENDS Integers, Sequences, FiniteSets, TLC

\* ------------------------------------------------------------------------
\* Bounds of the model
\* ------------------------------------------------------------------------

\* largest --min-runs value explored
MaxMinRuns == 3

\* cap on the number of Backend::run calls recorded for one run_single_test
\* call; the code itself makes at most 16 + MaxMinRuns (see CallsBelowCap)
MaxCalls == MaxMinRuns + 20

\* largest params.quantity given to VelloBackend::run in SpecBackend
MaxQuantity == 2

\* number of VelloBackend::run calls of one behaviour of SpecBackend
MaxRuns == 3

\* number of draws made on the BenchRandom of SpecRandom
MaxDraws == 4

\* number of entries pushed into the BaselineSum of SpecSum
MaxPush == 4

\* ------------------------------------------------------------------------
\* Program constants
\* ------------------------------------------------------------------------

INITIAL_QUANTITY == 25

MIN_DURATION_US == 1000

QUANTITY_CAP == 1000000

\* stand-in for u64::MAX, the initial value of `best`: larger than every
\* duration the model's backend reports
U64_MAX == 2147483647

\* quantity given by BenchmarkConfig::from_args in preview mode
PREVIEW_QUANTITY == 10

\* first entry of BENCH_SHAPE_SIZES
FIRST_SHAPE_SIZE == 8

\* default canvas size (--width, --height)
WIDTH == 512

HEIGHT == 600

\* the seeds of the coordinate, color and auxiliary streams, reduced to
\* their low 16 bits (0x...7391, 0x...0011, 0x...F123)
COORD_SEED == 29585

COLOR_SEED == 17

EXTRA_SEED == 61731

\* number of distinct 16-bit words of the modelled generator
WordSpace == 65536

\* durations (microseconds) a backend may report: both sides of each
\* threshold of the calibration loop (100, 500, 1000) and two values above
Durations == {0, 99, 100, 499, 500, 999, 1000, 1500}

\* values of configured_quantity: 0 (auto-detect), the preview quantity, a
\* small fixed quantity and a fixed quantity above the auto-detect cap
ConfiguredQuantities == {0, 1, PREVIEW_QUANTITY, 2 * QUANTITY_CAP}

Min(a, b) == IF a < b THEN a ELSE b

Max(a, b) == IF a > b THEN a ELSE b

VARIABLES
    \* ---- run_single_test ----
    pc,                  \* "idle", "auto", "sample", "done"
    configured_quantity, \* argument
    min_runs,            \* argument
    params,              \* the shared BenchParams
    quantity,            \* local
    best,                \* local
    attempts,            \* local
    required_runs,       \* local
    ret,                 \* returned (duration, quantity), <<>> before return
    \* ---- history of the Backend::run calls of this run_single_test ----
    calls,               \* number of Backend::run calls
    lastQ,               \* params.quantity of the last call (0: none yet)
    lastD,               \* duration reported by the last call
    steps,               \* number of scale-up steps taken
    settledMin,          \* minimum duration over the calls made at lastQ
    settledRuns,         \* number of calls made at lastQ
    \* ---- VelloBackend ----
    backend,             \* width, height and the three BenchRandom streams
    hist,                \* the runs made: <<params, draws consumed>> each
    \* ---- BenchRandom ----
    rnd,                 \* the BenchRandom in use
    twin,                \* <<>>, or <<BenchRandom>>: one built by new() with
                         \* the same seed when rnd was last rewound, and
                         \* given the same calls since
    outRnd,              \* values rnd returned since its last rewind
    outTwin,             \* values the twin returned
    draws,               \* number of draws made on rnd
    \* ---- BaselineSum ----
    sum,                 \* the BaselineSum
    pushed,              \* the entries pushed so far
    fin,                 \* <<>>, or <<the result of finish>>
    \* ---- parse_toggle_list ----
    filterToks,          \* the pieces of the filter as typed between commas
    test_list,           \* <<>> (no --tests), or <<the filter string>>
    parsed,              \* <<>>, or <<the result of parse_toggle_list>>
    \* ---- format_cell ----
    cell,                \* the CellData
    rendered,            \* <<>>, or <<the result of format_cell>>
    \* ---- Baseline ----
    blFile,              \* the baseline file: absent, garbled or a document
    blSizes,             \* the sizes its ladder labels stand for, -1 for none
    blLoaded,            \* <<>>, or <<the result of Baseline::load>>
    blQuery,             \* <<>>, or the <<backend, test, size>> looked up last
    blFound,             \* <<>>, or <<the result of that lookup>>
    \* ---- app::run ----
    app,                 \* the run: arguments, position, BenchRunner, output
    shadow,              \* the same run started without --baseline
    timing,              \* how long the machine takes over a Backend::run
    \* ---- the backends of a thread-count list ----
    thr                  \* the --threads list, the config's, the backends

calVars ==
    <<pc, configured_quantity, min_runs, params, quantity, best, attempts,
      required_runs, ret, calls, lastQ, lastD, steps, settledMin, settledRuns>>

backVars == <<backend, hist>>

rndVars == <<rnd, twin, outRnd, outTwin, draws>>

sumVars == <<sum, pushed, fin>>

fltVars == <<filterToks, test_list, parsed>>

\* the parts of the state added around run_single_test, the backend, the
\* generator and the sum
cellVars == <<cell, rendered>>

blVars == <<blFile, blSizes, blLoaded, blQuery, blFound>>

thrVars == <<thr>>

extVars == <<fltVars, cellVars, blVars, thrVars>>

appVars == <<app, shadow, timing>>

vars == <<calVars, backVars, rndVars, sumVars, extVars, appVars>>

\* ------------------------------------------------------------------------
\* BenchRandom: a seeded StdRng and the seed it was built from
\* ------------------------------------------------------------------------

\* StdRng::seed_from_u64: the seed is expanded into the key of the stream
\* cipher and the generator stands at position 0 of the keyed stream
StdRng_seed_from_u64(seed) ==
    [key |-> (seed * 25173 + 13849) % WordSpace, pos |-> 0]

\* the word at position pos of the stream keyed by key
Word(key, pos) == (key * (pos + 1) + 7 * pos * pos + 13 * pos) % WordSpace

\* RngCore::next_u32: one word of the stream
next_u32(rng) ==
    [value |-> Word(rng.key, rng.pos), rng |-> [rng EXCEPT !.pos = @ + 1]]

\* RngCore::next_u64: two words of the stream
next_u64(rng) ==
    [value |-> Word(rng.key, rng.pos) + 31 * Word(rng.key, rng.pos + 1),
     rng |-> [rng EXCEPT !.pos = @ + 2]]

BenchRandom_new(seed) == [rng |-> StdRng_seed_from_u64(seed), seed |-> seed]

\* slip: rewind leaves the generator where it stands
rewind_keep(r) == r

rewind(r) == [r EXCEPT !.rng = StdRng_seed_from_u64(r.seed)]

\* random_range(min..max) on f64, on the integer grid: a value of
\* [min, max) derived from a 64-bit draw
next_f64(r, min, max) ==
    LET w == next_u64(r.rng)
    IN  [value |-> min + (w.value % (max - min)),
         r |-> [r EXCEPT !.rng = w.rng]]

\* random_range(min..max) on i32: a value of [min, max) derived from a
\* 32-bit draw
next_i32(r, min, max) ==
    LET w == next_u32(r.rng)
    IN  [value |-> min + (w.value % (max - min)),
         r |-> [r EXCEPT !.rng = w.rng]]

next_bool(r) ==
    LET w == next_u32(r.rng)
    IN  [value |-> (w.value % 2 = 1), r |-> [r EXCEPT !.rng = w.rng]]

next_color(r) ==
    LET w == next_u32(r.rng)
    IN  [value |-> w.value, r |-> [r EXCEPT !.rng = w.rng]]

\* ------------------------------------------------------------------------
\* VelloBackend: the render context and the surface belong to the renderer
\* and are left out; what the harness owns are the canvas size and the
\* three streams
\* ------------------------------------------------------------------------

U16(n) == n % 65536

VelloBackend_new(width, height, threads) ==
    [name |-> IF threads = 0 THEN "Vello CPU ST"
              ELSE "Vello CPU " \o ToString(threads) \o "T",
     width |-> U16(width),
     height |-> U16(height),
     coord_rng |-> BenchRandom_new(COORD_SEED),
     color_rng |-> BenchRandom_new(COLOR_SEED),
     extra_rng |-> BenchRandom_new(EXTRA_SEED)]

\* slip: the auxiliary stream is left out of the reset
reset_state_partial(b) ==
    [b EXCEPT !.coord_rng = rewind(@), !.color_rng = rewind(@)]

reset_state(b) ==
    [b EXCEPT !.coord_rng = rewind(@),
              !.color_rng = rewind(@),
              !.extra_rng = rewind(@)]

ensure_context(b, screen_w, screen_h) ==
    IF U16(screen_w) # b.width \/ U16(screen_h) # b.height
    THEN [b EXCEPT !.width = U16(screen_w), !.height = U16(screen_h)]
    ELSE b

prepare_context(b, p) == ensure_context(b, p.screen_w, p.screen_h)

\* A rendering state st is [b |-> the backend, trace |-> the draws made so
\* far in this run, value |-> the value of the last draw].

coord_i32(st, min, max) ==
    LET x == next_i32(st.b.coord_rng, min, max)
    IN  [b |-> [st.b EXCEPT !.coord_rng = x.r],
         trace |-> Append(st.trace, <<"coord", x.value>>),
         value |-> x.value]

coord_f64(st, min, max) ==
    LET x == next_f64(st.b.coord_rng, min, max)
    IN  [b |-> [st.b EXCEPT !.coord_rng = x.r],
         trace |-> Append(st.trace, <<"coord", x.value>>),
         value |-> x.value]

extra_f64(st, min, max) ==
    LET x == next_f64(st.b.extra_rng, min, max)
    IN  [b |-> [st.b EXCEPT !.extra_rng = x.r],
         trace |-> Append(st.trace, <<"extra", x.value>>),
         value |-> x.value]

random_color(st) ==
    LET x == next_color(st.b.color_rng)
    IN  [b |-> [st.b EXCEPT !.color_rng = x.r],
         trace |-> Append(st.trace, <<"color", x.value>>),
         value |-> x.value]

\* one iteration of the loop of render_rect_aligned
rect_aligned_op(st, p) ==
    LET bounds_x == Max(st.b.width - p.shape_size, 1)
        bounds_y == Max(st.b.height - p.shape_size, 1)
        sx == coord_i32(st, 0, bounds_x)
        sy == coord_i32(sx, 0, bounds_y)
    IN  random_color(sy)

\* one iteration of the loop of render_rect_floating, render_rect_rotated
\* and render_shape: x, y and a color
rect_floating_op(st, p) ==
    LET sx == coord_f64(st, 0, st.b.width - U16(p.shape_size))
        sy == coord_f64(sx, 0, st.b.height - U16(p.shape_size))
    IN  random_color(sy)

\* one iteration of the loop of render_round
round_op(st, p) ==
    LET sx == coord_f64(st, 0, st.b.width - U16(p.shape_size))
        sy == coord_f64(sx, 0, st.b.height - U16(p.shape_size))
        sr == extra_f64(sy, 4, 40)
    IN  random_color(sr)

\* the vertices of one polygon of render_polygon
RECURSIVE polygon_points(_, _, _, _, _)
polygon_points(st, base_x, base_y, size, n) ==
    IF n = 0 THEN st
    ELSE LET px == coord_f64(st, base_x, base_x + size)
             py == coord_f64(px, base_y, base_y + size)
         IN  polygon_points(py, base_x, base_y, size, n - 1)

\* one iteration of the loop of render_polygon
polygon_op(st, p, complexity) ==
    LET sx == coord_f64(st, 0, st.b.width - U16(p.shape_size))
        sy == coord_f64(sx, 0, st.b.height - U16(p.shape_size))
    IN  random_color(
            polygon_points(sy, sx.value, sy.value, p.shape_size, complexity))

\* the match of VelloBackend::run: one drawing operation of the test
render_op(st, p) ==
    CASE p.test \in {"FillRectA", "StrokeRectA"} -> rect_aligned_op(st, p)
      [] p.test \in {"FillRectU", "StrokeRectU", "FillRectRot",
                     "StrokeRectRot"} -> rect_floating_op(st, p)
      [] p.test \in {"FillRoundU", "StrokeRoundU", "FillRoundRot",
                     "StrokeRoundRot"} -> round_op(st, p)
      [] p.test \in {"FillTriangle", "StrokeTriangle"} -> polygon_op(st, p, 3)
      [] p.test \in {"FillPolyNZ10", "FillPolyEO10", "StrokePoly10"}
            -> polygon_op(st, p, 10)
      [] p.test \in {"FillPolyNZ20", "FillPolyEO20", "StrokePoly20"}
            -> polygon_op(st, p, 20)
      [] p.test \in {"FillPolyNZ40", "FillPolyEO40", "StrokePoly40"}
            -> polygon_op(st, p, 40)
      [] OTHER -> rect_floating_op(st, p)

\* the `for _ in 0..params.quantity` loop of the render functions
RECURSIVE render_loop(_, _, _)
render_loop(st, p, n) ==
    IF n = 0 THEN st ELSE render_loop(render_op(st, p), p, n - 1)

\* VelloBackend::run: the backend after the run and the draws it consumed
run(b, p) ==
    LET b1 == reset_state(b)
        b2 == prepare_context(b1, p)
    IN  render_loop([b |-> b2, trace |-> <<>>, value |-> 0], p, p.quantity)

\* tests, sizes and parameters given to VelloBackend::run in SpecBackend:
\* an aligned rectangle (i32 draws), a rounded rectangle (the auxiliary
\* stream) and a triangle (nested vertex draws)
RunTests == {"FillRectA", "FillRoundU", "FillTriangle"}

RunSizes == {8, 16}

RunParams ==
    [screen_w : {WIDTH}, screen_h : {HEIGHT}, test : RunTests,
     shape_size : RunSizes, quantity : 0..MaxQuantity]

\* seeds given to BenchRandom::new in SpecRandom
Seeds == {COORD_SEED, COLOR_SEED, EXTRA_SEED}

\* ------------------------------------------------------------------------
\* f64 values
\* ------------------------------------------------------------------------

\* An f64 is held as a fraction num/den in lowest terms with den > 0.  A
\* value of tiny = TRUE is that fraction of f64::EPSILON, far below every
\* other value: added to or taken from a value that is not tiny it is
\* absorbed by the rounding of the f64 sum.  On the whole numbers the cells
\* are tried with, the comparisons of the fractions are those of the f64s.
Abs(n) == IF n < 0 THEN -n ELSE n

Sign(n) == IF n < 0 THEN -1 ELSE IF n > 0 THEN 1 ELSE 0

RECURSIVE GCD(_, _)
GCD(a, b) == IF b = 0 THEN a ELSE GCD(b, a % b)

Frac(n, d) ==
    LET g == GCD(Abs(n), Abs(d))
    IN  [num |-> Sign(d) * (n \div g), den |-> Abs(d) \div g, tiny |-> FALSE]

Num(n) == [num |-> n, den |-> 1, tiny |-> FALSE]

\* n/d of f64::EPSILON
Eps(n, d) == [Frac(n, d) EXCEPT !.tiny = TRUE]

\* a quotient too large for the whole numbers of the model: a value that
\* is not tiny divided by a tiny one, times 100
Huge == 100000000

LessEq(a, b) == a.num * b.den <= b.num * a.den

\* a + b of two values that are not tiny
Plus(a, b) == Frac(a.num * b.den + b.num * a.den, a.den * b.den)

\* ------------------------------------------------------------------------
\* BaselineSum
\* ------------------------------------------------------------------------

\* Option<String>::None
NoError == "None"

Ok(v) == [ok |-> TRUE, value |-> v, err |-> NoError]

Err(e) == [ok |-> FALSE, value |-> Num(0), err |-> e]

\* BaselineSum::default()
BaselineSum_default == [total |-> Num(0), has_value |-> FALSE, error |-> NoError]

\* slip: a value is added without looking at the recorded error
push_unguarded(self, entry) ==
    IF entry.ok
    THEN [self EXCEPT !.total = Plus(@, entry.value), !.has_value = TRUE]
    ELSE IF self.error = NoError THEN [self EXCEPT !.error = entry.err]
         ELSE self

\* slip: a later error replaces the recorded one
push_overwrite(self, entry) ==
    IF entry.ok
    THEN IF self.error = NoError
         THEN [self EXCEPT !.total = Plus(@, entry.value), !.has_value = TRUE]
         ELSE self
    ELSE [self EXCEPT !.error = entry.err]

\* slip: `total = value` written for `total += value`
push_assign(self, entry) ==
    IF entry.ok
    THEN IF self.error = NoError
         THEN [self EXCEPT !.total = entry.value, !.has_value = TRUE]
         ELSE self
    ELSE IF self.error = NoError THEN [self EXCEPT !.error = entry.err]
         ELSE self

push(self, entry) ==
    IF entry.ok
    THEN IF self.error = NoError
         THEN [self EXCEPT !.total = Plus(@, entry.value), !.has_value = TRUE]
         ELSE self
    ELSE IF self.error = NoError THEN [self EXCEPT !.error = entry.err]
         ELSE self

finish(self) ==
    IF self.error # NoError THEN Err(self.error)
    ELSE IF self.has_value THEN Ok(self.total)
    ELSE Err("missing baseline value")

\* baseline values and error labels pushed in SpecSum
BaselineValues == {Num(0), Num(1), Frac(5, 2)}

ErrorLabels == {"missing baseline value", "invalid baseline value"}

Entries == {Ok(v) : v \in BaselineValues} \cup {Err(e) : e \in ErrorLabels}

\* ------------------------------------------------------------------------
\* The test catalogue and parse_toggle_list
\* ------------------------------------------------------------------------

\* number of entries of TestKind::ALL the model keeps
NumTests == 3

\* the variants of TestKind, in the order of TestKind::ALL
TestKindVariants ==
    <<"FillRectA", "FillRectU", "FillRectRot", "FillRoundU", "FillRoundRot",
      "FillTriangle", "FillPolyNZ10", "FillPolyEO10", "FillPolyNZ20",
      "FillPolyEO20", "FillPolyNZ40", "FillPolyEO40", "FillButterfly",
      "FillFish", "FillDragon", "FillWorld", "StrokeRectA", "StrokeRectU",
      "StrokeRectRot", "StrokeRoundU", "StrokeRoundRot", "StrokeTriangle",
      "StrokePoly10", "StrokePoly20", "StrokePoly40", "StrokeButterfly",
      "StrokeFish", "StrokeDragon", "StrokeWorld">>

\* TestKind::ALL, cut to its first NumTests entries
TestKind_ALL == SubSeq(TestKindVariants, 1, NumTests)

\* TestKind::name
TestKind_name(test) ==
    CASE test = "FillPolyNZ10" -> "FillPolyNZi10"
      [] test = "FillPolyEO10" -> "FillPolyEOi10"
      [] test = "FillPolyNZ20" -> "FillPolyNZi20"
      [] test = "FillPolyEO20" -> "FillPolyEOi20"
      [] test = "FillPolyNZ40" -> "FillPolyNZi40"
      [] test = "FillPolyEO40" -> "FillPolyEOi40"
      [] OTHER -> test

\* test_items of BenchmarkConfig::from_args: (name, test) for each test
TestItems == [i \in 1..Len(TestKind_ALL) |->
                 <<TestKind_name(TestKind_ALL[i]), TestKind_ALL[i]>>]

\* A filter string is a sequence of atoms: ",", " ", "-" and words.  The
\* words a user may type, and their ASCII lower-case forms:
AsciiLower(word) ==
    CASE word = "FillRectA" -> "fillrecta"
      [] word = "FILLRECTA" -> "fillrecta"
      [] word = "FillRectU" -> "fillrectu"
      [] word = "fillrectu" -> "fillrectu"
      [] word = "FillRectRot" -> "fillrectrot"
      [] word = "FillRoundU" -> "fillroundu"
      [] word = "Bogus" -> "bogus"
      [] OTHER -> word

\* str::eq_ignore_ascii_case
eq_ignore_ascii_case(a, b) == AsciiLower(a) = AsciiLower(b)

\* str::trim: the white space at both ends is dropped
RECURSIVE TrimStart(_)
TrimStart(s) ==
    IF s # <<>> /\ s[1] = " " THEN TrimStart(Tail(s)) ELSE s

RECURSIVE TrimEnd(_)
TrimEnd(s) ==
    IF s # <<>> /\ s[Len(s)] = " " THEN TrimEnd(SubSeq(s, 1, Len(s) - 1))
    ELSE s

Trim(s) == TrimEnd(TrimStart(s))

\* str::split(','): the pieces between the commas, at least one
RECURSIVE SplitFrom(_, _, _)
SplitFrom(s, i, piece) ==
    IF i > Len(s) THEN <<piece>>
    ELSE IF s[i] = "," THEN <<piece>> \o SplitFrom(s, i + 1, <<>>)
    ELSE SplitFrom(s, i + 1, Append(piece, s[i]))

Split(s) == SplitFrom(s, 1, <<>>)

\* items.iter().find(|(label, _)| label.eq_ignore_ascii_case(name)): the
\* index of the first item whose label is the name, 0 when there is none
FindItem(items, name) ==
    LET hits == {i \in 1..Len(items) :
                    /\ Len(name) = 1
                    /\ eq_ignore_ascii_case(items[i][1], name[1])}
    IN  IF hits = {} THEN 0 ELSE CHOOSE i \in hits : \A j \in hits : i <= j

\* slip: an entry of the other mode is taken in the mode of the first
ToggleStep_unmixed(st, raw, items) ==
    LET token == Trim(raw)
        minus == token # <<>> /\ token[1] = "-"
        name == IF minus THEN Tail(token) ELSE token
        found == FindItem(items, name)
    IN  IF st.err # "" \/ token = <<>> THEN st
        ELSE IF found = 0
        THEN [st EXCEPT !.err = "Unknown entry"]
        ELSE [st EXCEPT !.include_mode =
                            IF st.include_mode = 0
                            THEN (IF minus THEN -1 ELSE 1) ELSE @,
                        !.result = @ \cup {items[found][2]}]

\* the body of the loop over the pieces of the filter; include_mode 0 is
\* None, err "" is no error yet
ToggleStep(st, raw, items) ==
    LET token == Trim(raw)
        minus == token # <<>> /\ token[1] = "-"
        mode == IF minus THEN -1 ELSE 1
        name == IF minus THEN Tail(token) ELSE token
        found == FindItem(items, name)
    IN  IF st.err # "" \/ token = <<>> THEN st
        ELSE IF st.include_mode # 0 /\ st.include_mode # mode
        THEN [st EXCEPT !.err = "Cannot mix additive and subtractive entries"]
        ELSE IF found = 0
        THEN [st EXCEPT !.include_mode = mode, !.err = "Unknown entry"]
        ELSE [st EXCEPT !.include_mode = mode,
                        !.result = @ \cup {items[found][2]}]

RECURSIVE ToggleLoop(_, _, _)
ToggleLoop(st, pieces, items) ==
    IF pieces = <<>> THEN st
    ELSE ToggleLoop(ToggleStep(st, pieces[1], items), Tail(pieces), items)

\* the orders in which a HashSet may hand out its elements
Orders(S) ==
    {f \in [1..Cardinality(S) -> S] : \A i, j \in DOMAIN f : f[i] = f[j] => i = j}

Range(f) == {f[i] : i \in DOMAIN f}

\* slip: a subtractive filter keeps the named entries
SelectedSet_keep(st, default_items) == st.result

\* slip: a filter that names nothing selects the default entries
SelectedSet_default(st, default_items) ==
    IF st.include_mode = -1 THEN Range(default_items) \ st.result
    ELSE IF st.include_mode = 0 THEN Range(default_items)
    ELSE st.result

\* the set the match on include_mode selects
SelectedSet(st, default_items) ==
    IF st.include_mode = -1 THEN Range(default_items) \ st.result
    ELSE st.result

\* parse_toggle_list: the results the call may return.  Err carries the
\* message; Ok carries the Vec, which for a filter is collected from a
\* HashSet and so comes in any order
parse_toggle_list(list, items, default_items) ==
    IF list = <<>>
    THEN {[ok |-> TRUE, err |-> "", value |-> default_items]}
    ELSE LET st == ToggleLoop([include_mode |-> 0, result |-> {}, err |-> ""],
                              Split(list[1]), items)
         IN  IF st.err # ""
             THEN {[ok |-> FALSE, err |-> st.err, value |-> <<>>]}
             ELSE {[ok |-> TRUE, err |-> "", value |-> order] :
                      order \in Orders(SelectedSet(st, default_items))}

\* number of comma-separated pieces of the filters tried
MaxTokens == 3

\* the pieces a filter is made of: names as catalogued, in another case,
\* padded with blanks, subtractive, unknown, empty, blank, a lone "-" and
\* a "-" parted from its name
FilterTokens ==
    {<<>>, <<" ">>, <<"FillRectA">>, <<"FILLRECTA">>, <<" ", "FillRectU", " ">>,
     <<"FillRectRot">>, <<"-", "FillRectA">>, <<" ", "-", "fillrectu">>,
     <<"-", " ", "FillRectA">>, <<"Bogus">>, <<"-">>}

RECURSIVE Join(_)
Join(pieces) ==
    IF Len(pieces) = 1 THEN pieces[1]
    ELSE pieces[1] \o <<",">> \o Join(Tail(pieces))

FilterPieces ==
    UNION {[1..n -> FilterTokens] : n \in 1..MaxTokens}

\* ------------------------------------------------------------------------
\* format_cpms and format_cell
\* ------------------------------------------------------------------------

\* the rounding of {value:.N}: to the nearest, a tie to the even neighbour
RoundHalfEven(n, d) ==
    LET fl == IF n >= 0 THEN n \div d ELSE -((-n + d - 1) \div d)
        twice == 2 * (n - fl * d)
    IN  IF twice < d THEN fl
        ELSE IF twice > d THEN fl + 1
        ELSE IF fl % 2 = 0 THEN fl ELSE fl + 1

Pow10(k) == IF k = 0 THEN 1 ELSE IF k = 1 THEN 10 ELSE IF k = 2 THEN 100
            ELSE IF k = 3 THEN 1000 ELSE 10000

\* format!("{value:.N}"): the text is the digits of `scaled` with the point
\* before the last `decimals` of them
Fixed(value, decimals) ==
    [scaled |-> RoundHalfEven(value.num * Pow10(decimals), value.den),
     decimals |-> decimals]

\* slip: the values 0.1 and 1 are counted with the larger ones
format_cpms_below(value) ==
    IF ~LessEq(Frac(1, 10), value) THEN Fixed(value, 4)
    ELSE IF ~LessEq(Num(1), value) THEN Fixed(value, 3)
    ELSE IF ~LessEq(Num(10), value) THEN Fixed(value, 2)
    ELSE IF ~LessEq(Num(100), value) THEN Fixed(value, 1)
    ELSE Fixed(value, 0)

\* format_cpms
format_cpms(value) ==
    IF LessEq(value, Frac(1, 10)) THEN Fixed(value, 4)
    ELSE IF LessEq(value, Num(1)) THEN Fixed(value, 3)
    ELSE IF ~LessEq(Num(10), value) THEN Fixed(value, 2)
    ELSE IF ~LessEq(Num(100), value) THEN Fixed(value, 1)
    ELSE Fixed(value, 0)

\* CellData::new; baseline is <<>> (None) or <<a Result>>
CellData_new(raw, formatted, baseline) ==
    [raw |-> raw, formatted |-> formatted, baseline |-> baseline]

\* baseline.abs() <= f64::EPSILON
WithinEpsilon(baseline) ==
    \/ baseline.num = 0
    \/ baseline.tiny /\ Abs(baseline.num) <= baseline.den

\* ((cell.raw - baseline) / baseline) * 100.0, for a raw that is not tiny
DiffPercent(raw, baseline) ==
    IF baseline.tiny
    THEN IF raw.num = 0 THEN Num(-100)
         ELSE Num(Sign(raw.num) * Sign(baseline.num) * Huge)
    ELSE Frac((raw.num * baseline.den - baseline.num * raw.den) * 100,
              baseline.num * raw.den)

\* slip: a delta of exactly 3 percent either way is taken for noise
DiffColor_strict(diff) ==
    IF LessEq(Num(3), diff) /\ diff # Num(3) THEN "green"
    ELSE IF LessEq(diff, Num(-3)) /\ diff # Num(-3) THEN "red"
    ELSE "bright_black"

\* the colour of the delta: diff >= 3.0 green, diff <= -3.0 red
DiffColor(diff) ==
    IF LessEq(Num(3), diff) THEN "green"
    ELSE IF LessEq(diff, Num(-3)) THEN "red"
    ELSE "bright_black"

\* slip: the delta is computed whatever the baseline; a zero baseline
\* makes the quotient infinite or NaN
BaselineCell_divide(cell_, baseline) ==
    LET diff == IF baseline.num = 0
                THEN Num(Sign(cell_.raw.num) * Huge)
                ELSE DiffPercent(cell_.raw, baseline)
    IN  [base |-> cell_.formatted, note |-> "percent", color |-> DiffColor(diff),
         diff |-> <<diff>>, text |-> <<Fixed(diff, 1)>>]

\* the Some(Ok(baseline)) arm of format_cell
BaselineCell(cell_, baseline) ==
    IF WithinEpsilon(baseline)
    THEN [base |-> cell_.formatted, note |-> "(baseline 0)", color |-> "red",
          diff |-> <<>>, text |-> <<>>]
    ELSE LET diff == DiffPercent(cell_.raw, baseline)
         IN  [base |-> cell_.formatted, note |-> "percent",
              color |-> DiffColor(diff), diff |-> <<diff>>,
              text |-> <<Fixed(diff, 1)>>]

\* format_cell.  The String is held by its parts: the base text, what
\* follows it (nothing, the delta as {diff:+.1}%, or an annotation in
\* brackets) and the colour of that; diff is the delta when one was
\* computed
format_cell(cell_) ==
    IF cell_.baseline = <<>>
    THEN [base |-> cell_.formatted, note |-> "", color |-> "",
          diff |-> <<>>, text |-> <<>>]
    ELSE IF cell_.baseline[1].ok
    THEN BaselineCell(cell_, cell_.baseline[1].value)
    ELSE [base |-> cell_.formatted, note |-> cell_.baseline[1].err,
          color |-> "red", diff |-> <<>>, text |-> <<>>]

\* the throughputs and the baseline values the cells are tried with
CellRaws == {Num(n) : n \in {0, 96, 97, 98, 100, 102, 103, 104}}

CellBaselines ==
    {Num(n) : n \in {-100, 0, 100}} \cup
    {Eps(1, 2), Eps(1, 1), Eps(-1, 1), Eps(2, 1)}

MissingBaseline == "missing baseline value"

\* ------------------------------------------------------------------------
\* Baseline: load and lookup
\* ------------------------------------------------------------------------

\* the decimal numerals a size label may hold, and str::parse::<u32> of a
\* word: <<>> when it is no numeral
ParseU32(word) ==
    CASE word = "8" -> <<8>>
      [] word = "16" -> <<16>>
      [] word = "32" -> <<32>>
      [] word = "64" -> <<64>>
      [] OTHER -> <<>>

\* the part of a label before its first 'x': label.split('x').next()
RECURSIVE BeforeX(_)
BeforeX(label) ==
    IF label = <<>> \/ label[1] = "x" THEN <<>>
    ELSE <<label[1]>> \o BeforeX(Tail(label))

\* parse_size_label: <<the size>>, or <<>> for "invalid baseline size"
parse_size_label(label) ==
    LET part == Trim(BeforeX(label))
    IN  IF Len(part) = 1 THEN ParseU32(part[1]) ELSE <<>>

\* value_str.parse::<f64>() of an rcpms string: <<the value>>, or <<>>.  A
\* string of digits is held as format_cpms writes it; any other by its text
ParseF64(str) ==
    IF "scaled" \in DOMAIN str
    THEN <<Frac(str.scaled, Pow10(str.decimals))>>
    ELSE <<>>

\* slip: the entries are keyed by the ladder of the current run
LadderSizes_current(labels) ==
    [i \in 1..Len(labels) |->
        IF parse_size_label(labels[i]) = <<>> THEN <<>>
        ELSE <<FIRST_SHAPE_SIZE * (IF i = 1 THEN 1 ELSE IF i = 2 THEN 2 ELSE 4)>>]

\* root.options.sizes.iter().map(parse_size_label)
LadderSizes(labels) == [i \in 1..Len(labels) |-> parse_size_label(labels[i])]

\* entries.insert(key, value): the map with the key set to the value
MapInsert(entries, key, value) ==
    [k \in DOMAIN entries \cup {key} |-> IF k = key THEN value ELSE entries[k]]

\* the loop over record.rcpms, from index idx on
RECURSIVE LoadRcpms(_, _, _, _, _)
LoadRcpms(entries, name, record, sizes, idx) ==
    IF idx > Len(record.rcpms) THEN entries
    ELSE LET value == ParseF64(record.rcpms[idx])
             next == IF idx > Len(sizes) \/ value = <<>> THEN entries
                     ELSE MapInsert(entries, <<name, record.test_name, sizes[idx]>>,
                                    value[1])
         IN  LoadRcpms(next, name, record, sizes, idx + 1)

RECURSIVE LoadRecords(_, _, _, _)
LoadRecords(entries, name, records, sizes) ==
    IF records = <<>> THEN entries
    ELSE LoadRecords(LoadRcpms(entries, name, records[1], sizes, 1),
                     name, Tail(records), sizes)

RECURSIVE LoadRuns(_, _, _)
LoadRuns(entries, runs, sizes) ==
    IF runs = <<>> THEN entries
    ELSE LoadRuns(LoadRecords(entries, runs[1].name, runs[1].records, sizes),
                  Tail(runs), sizes)

\* the baseline file: none at the path, one that is no BaselineRoot, or
\* the BaselineRoot read from it
NoFile == [state |-> "absent", sizes |-> <<>>, runs |-> <<>>]

GarbledFile == [state |-> "garbled", sizes |-> <<>>, runs |-> <<>>]

EmptyEntries == [k \in {} |-> Num(0)]

\* Baseline::load
Baseline_load(file) ==
    IF file.state = "absent"
    THEN [ok |-> FALSE, err |-> "read baseline", entries |-> EmptyEntries]
    ELSE IF file.state = "garbled"
    THEN [ok |-> FALSE, err |-> "parse baseline", entries |-> EmptyEntries]
    ELSE LET sizes == LadderSizes(file.sizes)
         IN  IF \E i \in DOMAIN sizes : sizes[i] = <<>>
             THEN [ok |-> FALSE, err |-> "invalid baseline size",
                   entries |-> EmptyEntries]
             ELSE [ok |-> TRUE, err |-> "",
                   entries |-> LoadRuns(EmptyEntries, file.runs,
                                        [i \in DOMAIN sizes |-> sizes[i][1]])]

\* Baseline::lookup
Baseline_lookup(baseline, backend_name, test, size) ==
    IF <<backend_name, test, size>> \in DOMAIN baseline.entries
    THEN Ok(baseline.entries[<<backend_name, test, size>>])
    ELSE Err(MissingBaseline)

\* number of records of a run of the baseline documents tried
MaxRecords == 2

\* ladders of the baseline documents: the labels with the sizes they stand
\* for (-1: no size)
L8 == [label |-> <<"8", "x", "8">>, size |-> 8]
L16 == [label |-> <<" ", "16", " ", "x", "16">>, size |-> 16]
L32 == [label |-> <<"32">>, size |-> 32]
LBad == [label |-> <<"x", "8">>, size |-> -1]
LBig == [label |-> <<"big", "x", "big">>, size |-> -1]

Ladders ==
    {<<>>, <<L8>>, <<L8, L16>>, <<L16, L8>>, <<L16, L32>>, <<L8, L8>>,
     <<L8, LBad>>, <<LBig>>}

\* rcpms strings: two that format_cpms writes and one that is no number
S96 == format_cpms(Num(96))
S104 == format_cpms(Num(104))
SNaN == [text |-> "n/a"]

RcpmsLists ==
    {<<>>, <<S96>>, <<S96, S104>>, <<SNaN, S104>>, <<S104, S96, S96>>}

BaselineRecords ==
    {[test_name |-> t, rcpms |-> r] : t \in {"FillRectA", "FillRectU"},
                                      r \in RcpmsLists}

RecordLists == UNION {[1..n -> BaselineRecords] : n \in 0..MaxRecords}

OtherRun ==
    [name |-> "Vello CPU 2T",
     records |-> <<[test_name |-> "FillRectA", rcpms |-> <<S104, S104>>]>>]

RunLists ==
    {<<[name |-> "Vello CPU ST", records |-> rs]>> : rs \in RecordLists} \cup
    {<<[name |-> "Vello CPU ST", records |-> rs], OtherRun>> : rs \in RecordLists}

\* the cells looked up
LookupKeys ==
    {"Vello CPU ST", "Vello CPU 2T"} \X {"FillRectA", "FillRectU"} \X {8, 16, 32}

\* ------------------------------------------------------------------------
\* BenchmarkConfig, JsonWriter and the steps of BenchRunner
\* ------------------------------------------------------------------------

\* number of sizes of BENCH_SHAPE_SIZES the model keeps
NumSizes == 2

ShapeSizeLadder == <<8, 16, 32, 64, 128, 256>>

BENCH_SHAPE_SIZES == SubSeq(ShapeSizeLadder, 1, NumSizes)

SOLID_STYLE == "Solid"

DEFAULT_COMP_OP == "SrcOver"

\* slip: the list is sorted and repeated counts are kept
SortedThreads_repeats(threads) ==
    IF threads = <<>> THEN <<0>>
    ELSE CHOOSE f \in [DOMAIN threads -> Range(threads)] :
             /\ \A i, j \in DOMAIN f : i < j => f[i] <= f[j]
             /\ \A v \in Range(threads) :
                   Cardinality({i \in DOMAIN f : f[i] = v}) =
                   Cardinality({i \in DOMAIN threads : threads[i] = v})

\* threads.sort_unstable(); threads.dedup(); [0] when none is left
SortedThreads(threads) ==
    IF threads = <<>> THEN <<0>>
    ELSE CHOOSE f \in Orders(Range(threads)) :
             \A i, j \in DOMAIN f : i < j => f[i] < f[j]

\* the Ok arm of BenchmarkConfig::from_args, with the parsed test list
BenchmarkConfig(args, tests) ==
    [width |-> args.width,
     height |-> args.height,
     quantity |-> IF args.preview THEN PREVIEW_QUANTITY ELSE 0,
     min_runs |-> Max(args.min_runs, 1),
     sizes |-> BENCH_SHAPE_SIZES,
     tests |-> tests,
     threads |-> SortedThreads(args.threads),
     preview |-> args.preview,
     baseline |-> args.baseline,
     json_path |-> args.json_path]

\* JsonWriter::new
JsonWriter_new(screen_w, screen_h, quantity_, repeat, sizes) ==
    [runs |-> <<>>, screen_w |-> screen_w, screen_h |-> screen_h,
     quantity |-> quantity_, repeat |-> repeat, sizes |-> sizes]

\* JsonWriter::push_run
push_run(json, name, version, records) ==
    [json EXCEPT !.runs = Append(@, [name |-> name, version |-> version,
                                     records |-> records])]

\* the Root that JsonWriter::write serializes: sizes as "NxN" labels
JsonRoot(json) ==
    [screen |-> [width |-> json.screen_w, height |-> json.screen_h,
                 format |-> "prgb32"],
     options |-> [quantity |-> json.quantity,
                  sizes |-> [i \in DOMAIN json.sizes |->
                                <<ToString(json.sizes[i]), "x",
                                  ToString(json.sizes[i])>>],
                  repeat |-> json.repeat],
     runs |-> json.runs]

\* create_backends
create_backends(width, height, thread_counts) ==
    [i \in DOMAIN thread_counts |->
        VelloBackend_new(width, height, thread_counts[i])]

\* used_quantity as f64 * 1000.0 / duration as f64, for duration > 0
Cpms(used_quantity, duration) ==
    LET f == Frac(used_quantity, duration)
        g == GCD(1000, f.den)
    IN  Frac(f.num * (1000 \div g), f.den \div g)

\* the state of one app::run: the arguments, the position in the code
\* (apc), what BenchRunner and run_backend hold, and what has left the
\* process: the rows printed, the images and documents written, the
\* Backend::run calls made, the Result returned
AppStart(args) ==
    [apc |-> "from_args", args |-> args, result |-> <<>>, config |-> <<>>,
     baseline |-> <<>>, json |-> <<>>, backends |-> <<>>,
     bi |-> 0, ti |-> 0, si |-> 0,
     records |-> <<>>, totals |-> <<>>, baseline_totals |-> <<>>,
     cpms_strings |-> <<>>, display_cells |-> <<>>,
     stdout |-> <<>>, images |-> <<>>, written |-> <<>>, runlog |-> <<>>]

Exit(a, result) == [a EXCEPT !.apc = "exit", !.result = <<result>>]

AppOk == [ok |-> TRUE, err |-> ""]

AppErr(e) == [ok |-> FALSE, err |-> e]

\* run: BenchmarkConfig::from_args(args)?, with the outcome of
\* parse_toggle_list
FromArgsStep(a, outcome) ==
    IF ~outcome.ok THEN Exit(a, AppErr(outcome.err))
    ELSE [a EXCEPT !.apc = "new",
                   !.config = <<BenchmarkConfig(a.args, outcome.value)>>]

\* slip: a baseline that does not load is dropped and the run goes on
NewStep_lenient(a) ==
    LET config == a.config[1]
        json == JsonWriter_new(config.width, config.height, config.quantity,
                               config.min_runs, config.sizes)
        loaded == Baseline_load(config.baseline[1])
    IN  IF config.baseline = <<>> \/ ~loaded.ok
        THEN [a EXCEPT !.apc = "run", !.json = <<json>>]
        ELSE [a EXCEPT !.apc = "run", !.json = <<json>>,
                       !.baseline = <<loaded>>]

\* BenchRunner::new(config)?
NewStep(a) ==
    LET config == a.config[1]
        json == JsonWriter_new(config.width, config.height, config.quantity,
                               config.min_runs, config.sizes)
        loaded == Baseline_load(config.baseline[1])
    IN  IF config.baseline = <<>>
        THEN [a EXCEPT !.apc = "run", !.json = <<json>>]
        ELSE IF ~loaded.ok THEN Exit(a, AppErr(loaded.err))
        ELSE [a EXCEPT !.apc = "run", !.json = <<json>>,
                       !.baseline = <<loaded>>]

\* BenchRunner::run up to its loop over the backends
RunStep(a) ==
    LET config == a.config[1]
    IN  [a EXCEPT !.apc = "backend", !.bi = 1,
                  !.backends = create_backends(config.width, config.height,
                                               config.threads)]

\* the params that run_backend builds
NewParams(config) ==
    [screen_w |-> config.width, screen_h |-> config.height,
     test |-> "FillRectA", shape_size |-> config.sizes[1],
     quantity |-> config.quantity]

\* slip: the document is also written each time a backend has finished
BackendStep_each(a, wrote) ==
    LET config == a.config[1]
    IN  IF a.bi > Len(a.backends)
        THEN IF wrote
             THEN Exit([a EXCEPT !.written = Append(@, JsonRoot(a.json[1]))],
                       AppOk)
             ELSE Exit(a, AppErr("write json"))
        ELSE [a EXCEPT
                !.apc = "test", !.ti = 1, !.records = <<>>,
                !.totals = [i \in DOMAIN config.sizes |-> Num(0)],
                !.baseline_totals =
                    IF a.baseline = <<>> THEN <<>>
                    ELSE <<[i \in DOMAIN config.sizes |-> BaselineSum_default]>>,
                !.written = IF a.bi > 1 THEN Append(@, JsonRoot(a.json[1]))
                            ELSE @,
                !.stdout = Append(@, [row |-> "header",
                                      name |-> a.backends[a.bi].name])]

\* the loop over the backends in BenchRunner::run: the start of
\* run_backend for the next one or, after the last, json.write, which
\* writes the file (wrote) or fails
BackendStep(a, wrote) ==
    LET config == a.config[1]
    IN  IF a.bi > Len(a.backends)
        THEN IF wrote
             THEN Exit([a EXCEPT !.written = Append(@, JsonRoot(a.json[1]))],
                       AppOk)
             ELSE Exit(a, AppErr("write json"))
        ELSE [a EXCEPT
                !.apc = "test", !.ti = 1, !.records = <<>>,
                !.totals = [i \in DOMAIN config.sizes |-> Num(0)],
                !.baseline_totals =
                    IF a.baseline = <<>> THEN <<>>
                    ELSE <<[i \in DOMAIN config.sizes |-> BaselineSum_default]>>,
                !.stdout = Append(@, [row |-> "header",
                                      name |-> a.backends[a.bi].name])]

\* print_row: the cells it is given and the row as printed, a column per
\* cell
PrintedRow(test, cells) ==
    [row |-> test, cells |-> cells,
     columns |-> [i \in DOMAIN cells |-> format_cell(cells[i])]]

\* slip: the throughput strings of a test are kept for the next one
TestStep_carry(a) ==
    LET config == a.config[1]
        total_baseline_entries ==
            [i \in DOMAIN config.sizes |->
                IF a.baseline_totals = <<>> THEN <<>>
                ELSE <<finish(a.baseline_totals[1][i])>>]
        total_cells ==
            [i \in DOMAIN config.sizes |->
                CellData_new(a.totals[i], format_cpms(a.totals[i]),
                             total_baseline_entries[i])]
    IN  IF a.ti > Len(config.tests)
        THEN [a EXCEPT
                !.apc = "backend", !.bi = @ + 1,
                !.stdout = Append(@, PrintedRow("Total", total_cells)),
                !.json = <<push_run(a.json[1], a.backends[a.bi].name, <<>>,
                                    a.records)>>]
        ELSE [a EXCEPT !.apc = "cell", !.si = 1, !.display_cells = <<>>]

\* the loop over the tests in run_backend: the start of the next test or,
\* after the last, the Total row and json.push_run
TestStep(a) ==
    LET config == a.config[1]
        total_baseline_entries ==
            [i \in DOMAIN config.sizes |->
                IF a.baseline_totals = <<>> THEN <<>>
                ELSE <<finish(a.baseline_totals[1][i])>>]
        total_cells ==
            [i \in DOMAIN config.sizes |->
                CellData_new(a.totals[i], format_cpms(a.totals[i]),
                             total_baseline_entries[i])]
    IN  IF a.ti > Len(config.tests)
        THEN [a EXCEPT
                !.apc = "backend", !.bi = @ + 1,
                !.stdout = Append(@, PrintedRow("Total", total_cells)),
                !.json = <<push_run(a.json[1], a.backends[a.bi].name, <<>>,
                                    a.records)>>]
        ELSE [a EXCEPT !.apc = "cell", !.si = 1,
                       !.cpms_strings = <<>>, !.display_cells = <<>>]

\* the record pushed after a row
JsonRecord(test, cpms_strings) ==
    [test_name |-> TestKind_name(test), comp_op |-> DEFAULT_COMP_OP,
     style |-> SOLID_STYLE, rcpms |-> cpms_strings]

\* the loop over the sizes: the call of run_single_test for the next size
\* or, after the last, the end of the test: the overview image, in a
\* preview, is saved or fails to be (saved), the row is printed and the
\* record pushed
CellStep(a, saved) ==
    LET config == a.config[1]
        test == config.tests[a.ti]
    IN  IF a.si <= Len(config.sizes)
        THEN [a EXCEPT !.apc = "measure"]
        ELSE IF config.preview /\ ~saved
        THEN Exit(a, AppErr("write image"))
        ELSE [a EXCEPT
                !.apc = "test", !.ti = @ + 1,
                !.images = IF config.preview
                           THEN Append(@, <<TestKind_name(test),
                                            a.backends[a.bi].name>>)
                           ELSE @,
                !.stdout = Append(@, PrintedRow(TestKind_name(test),
                                                a.display_cells)),
                !.records = Append(@, JsonRecord(test, a.cpms_strings))]

\* slip: a cell whose baseline entry is missing is left out of the record
MeasuredStep_skip(a, duration, used_quantity) ==
    LET config == a.config[1]
        test == config.tests[a.ti]
        size == config.sizes[a.si]
        cpms == IF duration = 0 THEN Num(0) ELSE Cpms(used_quantity, duration)
        formatted == format_cpms(cpms)
        baseline_entry ==
            IF a.baseline = <<>> THEN <<>>
            ELSE <<Baseline_lookup(a.baseline[1], a.backends[a.bi].name,
                                   TestKind_name(test), size)>>
    IN  [a EXCEPT
            !.apc = "cell", !.si = @ + 1,
            !.totals[a.si] = Plus(@, cpms),
            !.baseline_totals =
                IF baseline_entry = <<>> \/ @ = <<>> THEN @
                ELSE <<[@[1] EXCEPT ![a.si] = push(@, baseline_entry[1])]>>,
            !.cpms_strings =
                IF baseline_entry # <<>> /\ ~baseline_entry[1].ok THEN @
                ELSE Append(@, formatted),
            !.display_cells =
                Append(@, CellData_new(cpms, formatted, baseline_entry))]

\* slip: only the baseline values that were found are summed for the
\* Total row
MeasuredStep_found(a, duration, used_quantity) ==
    LET config == a.config[1]
        test == config.tests[a.ti]
        size == config.sizes[a.si]
        cpms == IF duration = 0 THEN Num(0) ELSE Cpms(used_quantity, duration)
        formatted == format_cpms(cpms)
        baseline_entry ==
            IF a.baseline = <<>> THEN <<>>
            ELSE <<Baseline_lookup(a.baseline[1], a.backends[a.bi].name,
                                   TestKind_name(test), size)>>
    IN  [a EXCEPT
            !.apc = "cell", !.si = @ + 1,
            !.totals[a.si] = Plus(@, cpms),
            !.baseline_totals =
                IF baseline_entry = <<>> \/ @ = <<>> THEN @
                ELSE IF ~baseline_entry[1].ok THEN @
                ELSE <<[@[1] EXCEPT ![a.si] = push(@, baseline_entry[1])]>>,
            !.cpms_strings = Append(@, formatted),
            !.display_cells =
                Append(@, CellData_new(cpms, formatted, baseline_entry))]

\* slip: the quantity is divided by a duration of 0 as by any other, and
\* the quotient is infinite
MeasuredStep_divide(a, duration, used_quantity) ==
    LET config == a.config[1]
        test == config.tests[a.ti]
        size == config.sizes[a.si]
        cpms == IF duration = 0 THEN Num(Huge) ELSE Cpms(used_quantity, duration)
        formatted == format_cpms(cpms)
        baseline_entry ==
            IF a.baseline = <<>> THEN <<>>
            ELSE <<Baseline_lookup(a.baseline[1], a.backends[a.bi].name,
                                   TestKind_name(test), size)>>
    IN  [a EXCEPT
            !.apc = "cell", !.si = @ + 1,
            !.totals[a.si] = Plus(@, cpms),
            !.baseline_totals =
                IF baseline_entry = <<>> \/ @ = <<>> THEN @
                ELSE <<[@[1] EXCEPT ![a.si] = push(@, baseline_entry[1])]>>,
            !.cpms_strings = Append(@, formatted),
            !.display_cells =
                Append(@, CellData_new(cpms, formatted, baseline_entry))]

\* the body of the loop over the sizes after run_single_test returned
\* (duration, used_quantity)
MeasuredStep(a, duration, used_quantity) ==
    LET config == a.config[1]
        test == config.tests[a.ti]
        size == config.sizes[a.si]
        cpms == IF duration = 0 THEN Num(0) ELSE Cpms(used_quantity, duration)
        formatted == format_cpms(cpms)
        baseline_entry ==
            IF a.baseline = <<>> THEN <<>>
            ELSE <<Baseline_lookup(a.baseline[1], a.backends[a.bi].name,
                                   TestKind_name(test), size)>>
    IN  [a EXCEPT
            !.apc = "cell", !.si = @ + 1,
            !.totals[a.si] = Plus(@, cpms),
            !.baseline_totals =
                IF baseline_entry = <<>> \/ @ = <<>> THEN @
                ELSE <<[@[1] EXCEPT ![a.si] = push(@, baseline_entry[1])]>>,
            !.cpms_strings = Append(@, formatted),
            !.display_cells =
                Append(@, CellData_new(cpms, formatted, baseline_entry))]

\* a Backend::run call as it is seen from outside: the backend, the params
\* it was given and the duration it reported
RunEntry(a, p, duration) ==
    [backend |-> a.backends[a.bi].name, test |-> p.test,
     shape_size |-> p.shape_size, quantity |-> p.quantity,
     duration |-> duration]

\* the time a Backend::run takes: on a machine where every run takes
\* 1500 us ("steady"), none ("instant"), a time that grows with the work
\* ("linear"), either of two times ("noisy"), or a long time that depends
\* on the test and is ten or a hundred times longer at the first size
\* ("slow")
TestCost(test) ==
    CASE test = "FillRectA" -> 1 [] test = "FillRectU" -> 2 [] OTHER -> 3

SlowDuration(test) ==
    CASE test = "FillRectA" -> 10000 [] test = "FillRectU" -> 2000 [] OTHER -> 2

RunDurations(timing_, p) ==
    CASE timing_ = "steady" -> {1500}
      [] timing_ = "instant" -> {0}
      [] timing_ = "linear" ->
            {(p.quantity * p.shape_size * TestCost(p.test)) \div 200}
      [] timing_ = "slow" ->
            {SlowDuration(p.test) *
                (IF p.shape_size = BENCH_SHAPE_SIZES[1]
                 THEN (IF p.test = "FillRectA" THEN 10 ELSE 100)
                 ELSE 1)}
      [] OTHER -> {0, 1500}

\* ------------------------------------------------------------------------
\* The parts of the state a specification does not use stay as built
\* ------------------------------------------------------------------------

IdleCal ==
    /\ pc = "idle"
    /\ configured_quantity = 0
    /\ min_runs = 1
    /\ params = [screen_w |-> WIDTH, screen_h |-> HEIGHT,
                 test |-> "FillRectA", shape_size |-> FIRST_SHAPE_SIZE,
                 quantity |-> 0]
    /\ quantity = 0
    /\ best = 0
    /\ attempts = 0
    /\ required_runs = 0
    /\ ret = <<>>
    /\ calls = 0
    /\ lastQ = 0
    /\ lastD = 0
    /\ steps = 0
    /\ settledMin = 0
    /\ settledRuns = 0

IdleBackend ==
    /\ backend = VelloBackend_new(WIDTH, HEIGHT, 0)
    /\ hist = <<>>

IdleRandom ==
    /\ rnd = BenchRandom_new(COORD_SEED)
    /\ twin = <<>>
    /\ outRnd = <<>>
    /\ outTwin = <<>>
    /\ draws = 0

IdleFilter ==
    /\ filterToks = <<>>
    /\ test_list = <<>>
    /\ parsed = <<>>

IdleCell ==
    /\ cell = CellData_new(Num(0), format_cpms(Num(0)), <<>>)
    /\ rendered = <<>>

IdleBaseline ==
    /\ blFile = NoFile
    /\ blSizes = <<>>
    /\ blLoaded = <<>>
    /\ blQuery = <<>>
    /\ blFound = <<>>

\* no --threads list was read
IdleThreads ==
    thr = [pc |-> "off", given |-> <<>>, threads |-> <<>>, backends |-> <<>>]

\* no arguments were given and app::run was not called
NoArgs ==
    [width |-> WIDTH, height |-> HEIGHT, min_runs |-> 1, test_list |-> <<>>,
     threads |-> <<0>>, preview |-> FALSE, baseline |-> <<>>,
     json_path |-> "results.json"]

IdleApp ==
    /\ app = [AppStart(NoArgs) EXCEPT !.apc = "off"]
    /\ shadow = [AppStart(NoArgs) EXCEPT !.apc = "off"]
    /\ timing = "steady"

IdleExt ==
    /\ IdleFilter
    /\ IdleCell
    /\ IdleBaseline
    /\ IdleThreads
    /\ IdleApp

IdleSum ==
    /\ sum = BaselineSum_default
    /\ pushed = <<>>
    /\ fin = <<>>

\* ------------------------------------------------------------------------
\* run_single_test
\* ------------------------------------------------------------------------

InitialQuantity(cfg) == IF cfg = 0 THEN INITIAL_QUANTITY ELSE cfg

\* slip: min_runs is taken as it is given
RequiredRuns_asGiven(mr) == mr

RequiredRuns(mr) == Max(mr, 1)

\* slip: the duration floor compared with > instead of >=
AutoStop_strict(d, q) == d > MIN_DURATION_US \/ q > QUANTITY_CAP

\* slip: the cap on the quantity is set ten times too high
AutoStop_late(d, q) == d >= MIN_DURATION_US \/ q > 10 * QUANTITY_CAP

\* the exit test of the auto-detect loop
AutoStop(d, q) == d >= MIN_DURATION_US \/ q > QUANTITY_CAP

\* slip: the scaled quantity is computed and dropped, `quantity` stays
ScaleUp_noGrow(q, d) ==
    IF d < 100 THEN q
    ELSE IF d < 500 THEN q
    ELSE q

\* slip: `quantity = factor` written for `quantity *= factor`
ScaleUp_assign(q, d) ==
    IF d < 100 THEN 10
    ELSE IF d < 500 THEN 3
    ELSE 2

\* the scale-up at the end of one auto-detect iteration
ScaleUp(q, d) ==
    IF d < 100 THEN q * 10
    ELSE IF d < 500 THEN q * 3
    ELSE q * 2

\* slip: the auto-detect loop keeps the minimum over all its runs
AutoBest_min(b, d) == IF d < b THEN d ELSE b

\* `best` after a run of the auto-detect loop: the last duration
AutoBest(b, d) == d

\* slip: one sampling run too many
SampleContinue_inclusive(att, req) == att <= req

\* the condition of the sampling loop
SampleContinue(att, req) == att < req

\* the update of `best` in the sampling loop
KeepBest(b, d) == IF d < b THEN d ELSE b

\* what one Backend::run(params) call returning d leaves in the history
RecordRun(d) ==
    /\ calls' = calls + 1
    /\ lastQ' = params'.quantity
    /\ lastD' = d
    /\ settledMin' = IF params'.quantity = lastQ THEN Min(settledMin, d) ELSE d
    /\ settledRuns' = IF params'.quantity = lastQ THEN settledRuns + 1 ELSE 1

\* entry of run_single_test: the locals are initialised
Call ==
    /\ UNCHANGED <<backVars, rndVars, sumVars, extVars>>
    /\ pc = "idle"
    /\ quantity' = InitialQuantity(configured_quantity)
    /\ best' = U64_MAX
    /\ attempts' = 0
    /\ required_runs' = RequiredRuns(min_runs)
    /\ pc' = IF configured_quantity = 0 THEN "auto" ELSE "sample"
    /\ UNCHANGED <<configured_quantity, min_runs, params, ret, calls, lastQ,
                   lastD, steps, settledMin, settledRuns>>

\* slip: the run that ends auto-detection is not counted as an attempt
AutoRunStop_uncounted(d) ==
    /\ UNCHANGED <<backVars, rndVars, sumVars, extVars>>
    /\ pc = "auto"
    /\ calls < MaxCalls
    /\ params' = [params EXCEPT !.quantity = quantity]
    /\ RecordRun(d)
    /\ best' = AutoBest(best, d)
    /\ AutoStop(d, quantity)
    /\ attempts' = 0
    /\ pc' = "sample"
    /\ UNCHANGED <<configured_quantity, min_runs, quantity, required_runs,
                   ret, steps>>

\* one iteration of the auto-detect loop that ends auto-detection
AutoRunStop(d) ==
    /\ UNCHANGED <<backVars, rndVars, sumVars, extVars>>
    /\ pc = "auto"
    /\ calls < MaxCalls
    /\ params' = [params EXCEPT !.quantity = quantity]
    /\ RecordRun(d)
    /\ best' = AutoBest(best, d)
    /\ AutoStop(d, quantity)
    /\ attempts' = 1
    /\ pc' = "sample"
    /\ UNCHANGED <<configured_quantity, min_runs, quantity, required_runs,
                   ret, steps>>

\* one iteration of the auto-detect loop that scales the quantity up
AutoRunScale(d) ==
    /\ UNCHANGED <<backVars, rndVars, sumVars, extVars>>
    /\ pc = "auto"
    /\ calls < MaxCalls
    /\ params' = [params EXCEPT !.quantity = quantity]
    /\ RecordRun(d)
    /\ best' = AutoBest(best, d)
    /\ ~AutoStop(d, quantity)
    /\ quantity' = ScaleUp(quantity, d)
    /\ steps' = steps + 1
    /\ UNCHANGED <<pc, configured_quantity, min_runs, attempts,
                   required_runs, ret>>

\* one iteration of the sampling loop
SampleRun(d) ==
    /\ UNCHANGED <<backVars, rndVars, sumVars, extVars>>
    /\ pc = "sample"
    /\ calls < MaxCalls
    /\ SampleContinue(attempts, required_runs)
    /\ params' = [params EXCEPT !.quantity = quantity]
    /\ RecordRun(d)
    /\ best' = KeepBest(best, d)
    /\ attempts' = attempts + 1
    /\ UNCHANGED <<pc, configured_quantity, min_runs, quantity,
                   required_runs, ret, steps>>

\* the sampling loop is over: (best, quantity) is returned
Return ==
    /\ UNCHANGED <<backVars, rndVars, sumVars, extVars>>
    /\ pc = "sample"
    /\ ~SampleContinue(attempts, required_runs)
    /\ ret' = <<best, quantity>>
    /\ pc' = "done"
    /\ UNCHANGED <<configured_quantity, min_runs, params, quantity, best,
                   attempts, required_runs, calls, lastQ, lastD, steps,
                   settledMin, settledRuns>>

Init ==
    /\ pc = "idle"
    /\ configured_quantity \in ConfiguredQuantities
    /\ min_runs \in 0..MaxMinRuns
    /\ params = [screen_w |-> WIDTH, screen_h |-> HEIGHT,
                 test |-> "FillRectA", shape_size |-> FIRST_SHAPE_SIZE,
                 quantity |-> configured_quantity]
    /\ quantity = 0
    /\ best = 0
    /\ attempts = 0
    /\ required_runs = 0
    /\ ret = <<>>
    /\ calls = 0
    /\ lastQ = 0
    /\ lastD = 0
    /\ steps = 0
    /\ settledMin = 0
    /\ settledRuns = 0
    /\ IdleBackend
    /\ IdleRandom
    /\ IdleSum
    /\ IdleExt

Next ==
    \/ Call /\ UNCHANGED appVars
    \/ \E d \in Durations : AutoRunStop(d) /\ UNCHANGED appVars
    \/ \E d \in Durations : AutoRunScale(d) /\ UNCHANGED appVars
    \/ \E d \in Durations : SampleRun(d) /\ UNCHANGED appVars
    \/ Return /\ UNCHANGED appVars

Spec == Init /\ [][Next]_vars

\* run_single_test is straight-line sequential code and Backend::run is a
\* synchronous call: an enabled step is eventually taken
LiveSpec == Init /\ [][Next]_vars /\ WF_vars(Next)

\* ------------------------------------------------------------------------
\* SpecBackend: a VelloBackend and the runs made on it
\* ------------------------------------------------------------------------

\* Backend::run(params); the elapsed time it returns is the input of Spec
BackendRun(p) ==
    /\ Len(hist) < MaxRuns
    /\ LET r == run(backend, p)
       IN  /\ backend' = r.b
           /\ hist' = Append(hist, <<p, r.trace>>)
    /\ UNCHANGED <<calVars, rndVars, sumVars, extVars,
                   appVars>>

InitBackend ==
    /\ IdleCal
    /\ backend = VelloBackend_new(WIDTH, HEIGHT, 0)
    /\ hist = <<>>
    /\ IdleRandom
    /\ IdleSum
    /\ IdleExt

NextBackend == \E p \in RunParams : BackendRun(p)

SpecBackend == InitBackend /\ [][NextBackend]_vars

\* ------------------------------------------------------------------------
\* SpecRandom: a BenchRandom, drawn from and rewound in any order
\* ------------------------------------------------------------------------

\* a draw x = [value, r] was made on rnd; the twin, if any, gets the same
\* call and answers y
Drawn(x, y) ==
    /\ draws < MaxDraws
    /\ draws' = draws + 1
    /\ rnd' = x.r
    /\ outRnd' = Append(outRnd, x.value)
    /\ twin' = IF twin = <<>> THEN twin ELSE <<y.r>>
    /\ outTwin' = IF twin = <<>> THEN outTwin ELSE Append(outTwin, y.value)
    /\ UNCHANGED <<calVars, backVars, sumVars, extVars,
                   appVars>>

\* the reference generator of the next draw
Ref == IF twin = <<>> THEN rnd ELSE twin[1]

NextF64(min, max) == Drawn(next_f64(rnd, min, max), next_f64(Ref, min, max))

NextI32(min, max) == Drawn(next_i32(rnd, min, max), next_i32(Ref, min, max))

NextBool == Drawn(next_bool(rnd), next_bool(Ref))

NextColor == Drawn(next_color(rnd), next_color(Ref))

\* rewind(); from here on a BenchRandom freshly built from the same seed
\* is given the same calls
Rewind ==
    /\ rnd' = rewind(rnd)
    /\ twin' = <<BenchRandom_new(rnd.seed)>>
    /\ outRnd' = <<>>
    /\ outTwin' = <<>>
    /\ UNCHANGED <<draws, calVars, backVars, sumVars, extVars,
                   appVars>>

InitRandom ==
    /\ IdleCal
    /\ IdleBackend
    /\ \E seed \in Seeds : rnd = BenchRandom_new(seed)
    /\ twin = <<>>
    /\ outRnd = <<>>
    /\ outTwin = <<>>
    /\ draws = 0
    /\ IdleSum
    /\ IdleExt

\* the ranges the backend draws from: coordinates of a 512x600 canvas and
\* the corner radius
NextRandom ==
    \/ \E range \in {<<0, WIDTH - 8>>, <<4, 40>>} : NextF64(range[1], range[2])
    \/ \E range \in {<<0, WIDTH - 8>>, <<0, 1>>} : NextI32(range[1], range[2])
    \/ NextBool
    \/ NextColor
    \/ Rewind

SpecRandom == InitRandom /\ [][NextRandom]_vars

\* ------------------------------------------------------------------------
\* SpecSum: a BaselineSum, pushed into and finished
\* ------------------------------------------------------------------------

Push(entry) ==
    /\ fin = <<>>
    /\ Len(pushed) < MaxPush
    /\ sum' = push(sum, entry)
    /\ pushed' = Append(pushed, entry)
    /\ UNCHANGED <<fin, calVars, backVars, rndVars, extVars,
                   appVars>>

\* finish(self) consumes the sum
Finish ==
    /\ fin = <<>>
    /\ fin' = <<finish(sum)>>
    /\ UNCHANGED <<sum, pushed, calVars, backVars, rndVars, extVars,
                   appVars>>

InitSum ==
    /\ IdleCal
    /\ IdleBackend
    /\ IdleRandom
    /\ IdleExt
    /\ sum = BaselineSum_default
    /\ pushed = <<>>
    /\ fin = <<>>

NextSum ==
    \/ \E entry \in Entries : Push(entry)
    \/ Finish

SpecSum == InitSum /\ [][NextSum]_vars

\* ------------------------------------------------------------------------
\* SpecFilter: parse_toggle_list on the test filter, as from_args calls it
\* ------------------------------------------------------------------------

ParseFilter ==
    /\ parsed = <<>>
    /\ \E r \in parse_toggle_list(test_list, TestItems, TestKind_ALL) :
          parsed' = <<r>>
    /\ UNCHANGED <<filterToks, test_list, cellVars, blVars, thrVars, calVars,
                   backVars, rndVars, sumVars, appVars>>

InitFilter ==
    /\ IdleCal
    /\ IdleBackend
    /\ IdleRandom
    /\ IdleSum
    /\ \/ filterToks = <<>> /\ test_list = <<>>
       \/ \E pieces \in FilterPieces :
             filterToks = pieces /\ test_list = <<Join(pieces)>>
    /\ parsed = <<>>
    /\ IdleCell
    /\ IdleBaseline
    /\ IdleThreads
    /\ IdleApp

NextFilter == ParseFilter

SpecFilter == InitFilter /\ [][NextFilter]_vars

\* ------------------------------------------------------------------------
\* SpecCell: format_cell on one cell of a row
\* ------------------------------------------------------------------------

FormatCell ==
    /\ rendered = <<>>
    /\ rendered' = <<format_cell(cell)>>
    /\ UNCHANGED <<cell, fltVars, blVars, thrVars, calVars, backVars, rndVars,
                   sumVars, appVars>>

InitCell ==
    /\ IdleCal
    /\ IdleBackend
    /\ IdleRandom
    /\ IdleSum
    /\ IdleFilter
    /\ IdleBaseline
    /\ IdleThreads
    /\ IdleApp
    /\ \E raw \in CellRaws :
          \/ cell = CellData_new(raw, format_cpms(raw), <<>>)
          \/ cell = CellData_new(raw, format_cpms(raw), <<Err(MissingBaseline)>>)
          \/ \E b \in CellBaselines :
                cell = CellData_new(raw, format_cpms(raw), <<Ok(b)>>)
    /\ rendered = <<>>

NextCell == FormatCell

SpecCell == InitCell /\ [][NextCell]_vars

\* ------------------------------------------------------------------------
\* SpecBaseline: a baseline file is loaded and cells are looked up in it
\* ------------------------------------------------------------------------

Load ==
    /\ blLoaded = <<>>
    /\ blLoaded' = <<Baseline_load(blFile)>>
    /\ UNCHANGED <<blFile, blSizes, blQuery, blFound, fltVars, cellVars, thrVars,
                   calVars, backVars, rndVars, sumVars, appVars>>

Lookup(key) ==
    /\ blLoaded # <<>>
    /\ blLoaded[1].ok
    /\ blQuery' = key
    /\ blFound' = <<Baseline_lookup(blLoaded[1], key[1], key[2], key[3])>>
    /\ UNCHANGED <<blFile, blSizes, blLoaded, fltVars, cellVars, thrVars,
                   calVars, backVars, rndVars, sumVars, appVars>>

InitBaseline ==
    /\ IdleCal
    /\ IdleBackend
    /\ IdleRandom
    /\ IdleSum
    /\ IdleFilter
    /\ IdleCell
    /\ IdleThreads
    /\ IdleApp
    /\ \/ blFile = NoFile /\ blSizes = <<>>
       \/ blFile = GarbledFile /\ blSizes = <<>>
       \/ \E ladder \in Ladders, runs \in RunLists :
             /\ blFile = [state |-> "json",
                          sizes |-> [i \in DOMAIN ladder |-> ladder[i].label],
                          runs |-> runs]
             /\ blSizes = [i \in DOMAIN ladder |-> ladder[i].size]
    /\ blLoaded = <<>>
    /\ blQuery = <<>>
    /\ blFound = <<>>

NextBaseline ==
    \/ Load
    \/ \E key \in LookupKeys : Lookup(key)

SpecBaseline == InitBaseline /\ [][NextBaseline]_vars

\* ------------------------------------------------------------------------
\* SpecThreads: the backends created for a --threads list
\* ------------------------------------------------------------------------

\* longest --threads list tried
MaxThreads == 3

\* the thread counts written in it
ThreadCounts == {0, 1, 2, 4}

ThreadLists == UNION {[1..n -> ThreadCounts] : n \in 0..MaxThreads}

\* BenchmarkConfig::from_args: the threads of the config
ConfigThreads ==
    /\ thr.pc = "args"
    /\ thr' = [thr EXCEPT !.pc = "config",
                          !.threads = SortedThreads(thr.given)]
    /\ UNCHANGED <<calVars, backVars, rndVars, sumVars, fltVars, cellVars,
                   blVars, appVars>>

\* BenchRunner::run: create_backends(width, height, &config.threads)
CreateBackends ==
    /\ thr.pc = "config"
    /\ thr' = [thr EXCEPT !.pc = "created",
                          !.backends = create_backends(WIDTH, HEIGHT,
                                                       thr.threads)]
    /\ UNCHANGED <<calVars, backVars, rndVars, sumVars, fltVars, cellVars,
                   blVars, appVars>>

InitThreads ==
    /\ IdleCal
    /\ IdleBackend
    /\ IdleRandom
    /\ IdleSum
    /\ IdleFilter
    /\ IdleCell
    /\ IdleBaseline
    /\ IdleApp
    /\ \E given \in ThreadLists :
          thr = [pc |-> "args", given |-> given, threads |-> <<>>,
                 backends |-> <<>>]

NextThreads ==
    \/ ConfigThreads
    \/ CreateBackends

SpecThreads == InitThreads /\ [][NextThreads]_vars

\* ------------------------------------------------------------------------
\* SpecApp: app::run from the command line to the result file
\* ------------------------------------------------------------------------

\* the command lines tried
AppFilters ==
    {<<>>,
     <<Join(<<<<"FillRectU">>, <<"FillRectA">>>>)>>,
     <<Join(<<<<"-", "FillRectA">>>>)>>,
     <<Join(<<<<>>>>)>>,
     <<Join(<<<<>>, <<" ">>>>)>>,
     <<Join(<<<<"FillRectA">>, <<"-", "FillRectU">>>>)>>,
     <<Join(<<<<"Bogus">>>>)>>}

AppThreads == {<<>>, <<2, 0, 2>>}

S0 == format_cpms(Num(0))

\* baseline documents as the harness writes them: for the single-threaded
\* backend, FillRectA at both sizes, FillRectU with a zero and with a
\* string that is no number, no other test; under the ladder of the run,
\* under a ladder of other sizes, and under a ladder with a bad label
AppBaselineRuns ==
    <<[name |-> "Vello CPU ST",
       records |-> <<[test_name |-> "FillRectA", rcpms |-> <<S96, S104>>],
                     [test_name |-> "FillRectU", rcpms |-> <<S0, SNaN>>]>>]>>

BaselineDoc(ladder) ==
    [state |-> "json", sizes |-> [i \in DOMAIN ladder |-> ladder[i].label],
     runs |-> AppBaselineRuns]

AppBaselines ==
    {<<>>, <<NoFile>>, <<GarbledFile>>, <<BaselineDoc(<<L8, L16>>)>>,
     <<BaselineDoc(<<L16, L32>>)>>, <<BaselineDoc(<<L8, LBig>>)>>}

AppArgs ==
    {[width |-> WIDTH, height |-> HEIGHT, min_runs |-> m, test_list |-> f,
      threads |-> t, preview |-> p, baseline |-> b,
      json_path |-> "results.json"] :
        m \in {0, 2}, f \in AppFilters, t \in AppThreads, p \in BOOLEAN,
        b \in AppBaselines}

\* the machines a command line is tried on: the noisy one only for one
\* backend and a filter of one or two tests, the slow one only for one
\* backend and a preview of every test
Timings(args) ==
    {"steady", "instant", "linear"} \cup
    (IF /\ args.threads = <<>>
        /\ args.test_list = <<Join(<<<<"FillRectU">>, <<"FillRectA">>>>)>>
        /\ args.preview
     THEN {"noisy"} ELSE {}) \cup
    (IF args.threads = <<>> /\ args.test_list = <<>> /\ args.preview
     THEN {"slow"} ELSE {})

\* the run without --baseline takes the step when it is at the same place
Twin(a, b) == IF shadow.apc = app.apc THEN b ELSE shadow

FromArgs ==
    /\ app.apc = "from_args"
    /\ \E outcome \in parse_toggle_list(app.args.test_list, TestItems,
                                       TestKind_ALL) :
          /\ app' = FromArgsStep(app, outcome)
          /\ shadow' = Twin(app, FromArgsStep(shadow, outcome))
    /\ UNCHANGED <<timing, calVars, backVars, rndVars, sumVars, extVars>>

New ==
    /\ app.apc = "new"
    /\ app' = NewStep(app)
    /\ shadow' = Twin(app, NewStep(shadow))
    /\ UNCHANGED <<timing, calVars, backVars, rndVars, sumVars, extVars>>

Run ==
    /\ app.apc = "run"
    /\ app' = RunStep(app)
    /\ shadow' = Twin(app, RunStep(shadow))
    /\ UNCHANGED <<timing, calVars, backVars, rndVars, sumVars, extVars>>

\* run_backend is entered for the next backend
BeginBackend ==
    /\ app.apc = "backend"
    /\ app.bi <= Len(app.backends)
    /\ app' = BackendStep(app, TRUE)
    /\ shadow' = Twin(app, BackendStep(shadow, TRUE))
    /\ params' = NewParams(app.config[1])
    /\ UNCHANGED <<pc, configured_quantity, min_runs, quantity, best, attempts,
                   required_runs, ret, calls, lastQ, lastD, steps, settledMin,
                   settledRuns>>
    /\ UNCHANGED <<timing, backVars, rndVars, sumVars, extVars>>

\* after the last backend: self.json.write(&self.config.json_path)
WriteJson ==
    /\ app.apc = "backend"
    /\ app.bi > Len(app.backends)
    /\ \E wrote \in BOOLEAN :
          /\ app' = BackendStep(app, wrote)
          /\ shadow' = Twin(app, BackendStep(shadow, wrote))
    /\ UNCHANGED <<timing, calVars, backVars, rndVars, sumVars, extVars>>

\* slip: params.test is not set for the test
BeginTest_stale ==
    /\ app.apc = "test"
    /\ app.ti <= Len(app.config[1].tests)
    /\ app' = TestStep(app)
    /\ shadow' = Twin(app, TestStep(shadow))
    /\ UNCHANGED <<timing, calVars, backVars, rndVars, sumVars, extVars>>

BeginTest ==
    /\ app.apc = "test"
    /\ app.ti <= Len(app.config[1].tests)
    /\ app' = TestStep(app)
    /\ shadow' = Twin(app, TestStep(shadow))
    /\ params' = [params EXCEPT !.test = app.config[1].tests[app.ti]]
    /\ UNCHANGED <<pc, configured_quantity, min_runs, quantity, best, attempts,
                   required_runs, ret, calls, lastQ, lastD, steps, settledMin,
                   settledRuns>>
    /\ UNCHANGED <<timing, backVars, rndVars, sumVars, extVars>>

\* after the last test: the Total row and push_run
EndBackend ==
    /\ app.apc = "test"
    /\ app.ti > Len(app.config[1].tests)
    /\ app' = TestStep(app)
    /\ shadow' = Twin(app, TestStep(shadow))
    /\ UNCHANGED <<timing, calVars, backVars, rndVars, sumVars, extVars>>

\* slip: the quantity a cell left in params is passed on as the
\* configured quantity of the next
StartCell_leak ==
    /\ app.apc = "cell"
    /\ app.si <= Len(app.config[1].sizes)
    /\ app' = CellStep(app, TRUE)
    /\ shadow' = Twin(app, CellStep(shadow, TRUE))
    /\ params' = [params EXCEPT !.shape_size = app.config[1].sizes[app.si]]
    /\ pc' = "idle"
    /\ configured_quantity' = params.quantity
    /\ min_runs' = app.config[1].min_runs
    /\ quantity' = 0
    /\ best' = 0
    /\ attempts' = 0
    /\ required_runs' = 0
    /\ ret' = <<>>
    /\ calls' = 0
    /\ lastQ' = 0
    /\ lastD' = 0
    /\ steps' = 0
    /\ settledMin' = 0
    /\ settledRuns' = 0
    /\ UNCHANGED <<timing, backVars, rndVars, sumVars, extVars>>

\* params.shape_size = size, and run_single_test is about to be called
\* with config.quantity and config.min_runs
StartCell ==
    /\ app.apc = "cell"
    /\ app.si <= Len(app.config[1].sizes)
    /\ app' = CellStep(app, TRUE)
    /\ shadow' = Twin(app, CellStep(shadow, TRUE))
    /\ params' = [params EXCEPT !.shape_size = app.config[1].sizes[app.si]]
    /\ pc' = "idle"
    /\ configured_quantity' = app.config[1].quantity
    /\ min_runs' = app.config[1].min_runs
    /\ quantity' = 0
    /\ best' = 0
    /\ attempts' = 0
    /\ required_runs' = 0
    /\ ret' = <<>>
    /\ calls' = 0
    /\ lastQ' = 0
    /\ lastD' = 0
    /\ steps' = 0
    /\ settledMin' = 0
    /\ settledRuns' = 0
    /\ UNCHANGED <<timing, backVars, rndVars, sumVars, extVars>>

\* after the last size: the overview of a preview, the row, the record
EndTest ==
    /\ app.apc = "cell"
    /\ app.si > Len(app.config[1].sizes)
    /\ \E saved \in BOOLEAN :
          /\ app' = CellStep(app, saved)
          /\ shadow' = Twin(app, CellStep(shadow, saved))
    /\ UNCHANGED <<timing, calVars, backVars, rndVars, sumVars, extVars>>

\* the Backend::run call of the step is seen, by both runs
Logged(d) ==
    /\ app' = [app EXCEPT !.runlog = Append(@, RunEntry(app, params', d))]
    /\ shadow' = Twin(app, [shadow EXCEPT
                              !.runlog = Append(@, RunEntry(shadow, params', d))])
    /\ UNCHANGED timing

Timed == RunDurations(timing, [params EXCEPT !.quantity = quantity])

\* run_single_test, step by step
CellCall ==
    /\ app.apc = "measure"
    /\ Call
    /\ UNCHANGED appVars

CellAutoRunStop ==
    /\ app.apc = "measure"
    /\ \E d \in Timed : AutoRunStop(d) /\ Logged(d)

CellAutoRunScale ==
    /\ app.apc = "measure"
    /\ \E d \in Timed : AutoRunScale(d) /\ Logged(d)

CellSampleRun ==
    /\ app.apc = "measure"
    /\ \E d \in Timed : SampleRun(d) /\ Logged(d)

CellReturn ==
    /\ app.apc = "measure"
    /\ Return
    /\ UNCHANGED appVars

\* run_single_test has returned: the cell is formatted, compared and kept
Measured ==
    /\ app.apc = "measure"
    /\ pc = "done"
    /\ app' = MeasuredStep(app, ret[1], ret[2])
    /\ shadow' = Twin(app, MeasuredStep(shadow, ret[1], ret[2]))
    /\ UNCHANGED <<timing, calVars, backVars, rndVars, sumVars, extVars>>

InitApp ==
    /\ IdleCal
    /\ IdleBackend
    /\ IdleRandom
    /\ IdleSum
    /\ IdleFilter
    /\ IdleCell
    /\ IdleBaseline
    /\ IdleThreads
    /\ \E args \in AppArgs :
          /\ app = AppStart(args)
          /\ shadow = AppStart([args EXCEPT !.baseline = <<>>])
          /\ timing \in Timings(args)

NextApp ==
    \/ FromArgs
    \/ New
    \/ Run
    \/ BeginBackend
    \/ WriteJson
    \/ BeginTest
    \/ EndBackend
    \/ StartCell
    \/ EndTest
    \/ CellCall
    \/ CellAutoRunStop
    \/ CellAutoRunScale
    \/ CellSampleRun
    \/ CellReturn
    \/ Measured

SpecApp == InitApp /\ [][NextApp]_vars

\* the cap on `calls` never stops a step of the code
CallsBelowCap ==
    (pc = "auto" \/ (pc = "sample" /\ SampleContinue(attempts, required_runs)))
        => calls < MaxCalls

\* ------------------------------------------------------------------------
\* Properties of run_single_test
\* ------------------------------------------------------------------------

\* C1: with configured_quantity > 0 and min_runs >= 1, run_single_test
\* returns configured_quantity as the quantity, never scales, passes that
\* quantity to the backend and calls Backend::run exactly min_runs times,
\* whatever durations the backend reports.
FixedQuantityExactRuns ==
    (pc = "done" /\ configured_quantity > 0 /\ min_runs >= 1)
        => /\ ret[2] = configured_quantity
           /\ calls = min_runs
           /\ steps = 0
           /\ lastQ = configured_quantity

FixedQuantityExactRunsWitness ==
    /\ pc = "done"
    /\ configured_quantity = 2 * QUANTITY_CAP
    /\ min_runs = MaxMinRuns
    /\ calls = MaxMinRuns
    /\ ret[1] = 0

\* C2: with configured_quantity = 0, run_single_test always returns: the
\* auto-detect loop and then the sampling loop end after finitely many
\* runs, for every sequence of durations (also when every run reports 0).
AutoTerminates == (configured_quantity = 0 /\ pc = "idle") ~> (pc = "done")

\* a call that left auto-detection through the quantity cap with a backend
\* that reported 0 microseconds
AutoTerminatesWitness ==
    /\ pc = "done"
    /\ configured_quantity = 0
    /\ ret[2] > QUANTITY_CAP
    /\ ret[1] = 0
    /\ lastD = 0

\* C3: in the auto-detect phase, after a run of duration d at quantity q,
\* auto-detection stops iff d >= 1000 or q > 1,000,000; otherwise the next
\* quantity is q*10 when d < 100, q*3 when 100 <= d < 500 and q*2 when
\* 500 <= d < 1000.  The first quantity tried is 25.
AutoDetectRule ==
    /\ [](pc = "auto" /\ calls = 0 => quantity = 25)
    /\ [][pc = "auto" =>
            LET d == lastD'
                q == quantity
            IN  /\ lastQ' = q
                /\ (pc' = "sample") <=> (d >= 1000 \/ q > 1000000)
                /\ (pc' = "auto") <=> ~(d >= 1000 \/ q > 1000000)
                /\ pc' = "sample" => quantity' = q
                /\ (pc' = "auto" /\ d < 100) => quantity' = q * 10
                /\ (pc' = "auto" /\ 100 <= d /\ d < 500) => quantity' = q * 3
                /\ (pc' = "auto" /\ 500 <= d /\ d < 1000) => quantity' = q * 2
       ]_vars

\* auto-detection used each of the three factors once and then stopped on
\* a duration of exactly 1000
AutoDetectRuleWitness ==
    /\ pc = "sample"
    /\ configured_quantity = 0
    /\ steps = 3
    /\ quantity = 25 * 10 * 3 * 2
    /\ calls = 4
    /\ lastD = 1000

\* C4: within one auto-mode call the quantities passed to successive
\* Backend::run calls never decrease, and the returned quantity is the
\* quantity of the last run.
QuantityMonotone ==
    /\ [][configured_quantity = 0 => lastQ' >= lastQ]_vars
    /\ [](pc = "done" /\ configured_quantity = 0 => ret[2] = lastQ)

QuantityMonotoneWitness ==
    /\ pc = "done"
    /\ configured_quantity = 0
    /\ steps >= 2
    /\ settledRuns >= 2

\* C5: in auto mode the run that ends auto-detection is attempt 1 of the
\* sampling phase: max(min_runs,1) runs are made at the settled quantity
\* and the call makes (scale-up steps) + max(min_runs,1) runs in all.
AutoAttemptAccounting ==
    (pc = "done" /\ configured_quantity = 0)
        => /\ settledRuns = Max(min_runs, 1)
           /\ calls = steps + Max(min_runs, 1)

AutoAttemptAccountingWitness ==
    /\ pc = "done"
    /\ configured_quantity = 0
    /\ min_runs = MaxMinRuns
    /\ steps = 2

\* C6: the returned duration is the minimum of the durations of the runs
\* made at the returned quantity, in fixed and in auto mode; the durations
\* of auto-detect runs at smaller quantities do not enter it.
BestIsSettledMin ==
    pc = "done" => (ret[2] = lastQ /\ ret[1] = settledMin)

\* an auto-mode call whose result (1500) is above the duration of a
\* discarded run (a scale-up step is taken only below 1000)
BestIsSettledMinWitness ==
    /\ pc = "done"
    /\ configured_quantity = 0
    /\ steps >= 1
    /\ settledRuns >= 2
    /\ ret[1] = 1500

\* ------------------------------------------------------------------------
\* Properties of VelloBackend and BenchRandom
\* ------------------------------------------------------------------------

\* C7: every Backend::run starts from the seeded state of the three
\* streams: a run consumes the draws a freshly built backend would consume
\* for the same params, so two runs with equal params consume the same
\* sequence of draws whatever runs were made before or between them.
RunsReplayFromSeed ==
    /\ \A i \in 1..Len(hist) :
          hist[i][2] = run(VelloBackend_new(WIDTH, HEIGHT, 0), hist[i][1]).trace
    /\ \A i, j \in 1..Len(hist) :
          hist[i][1] = hist[j][1] => hist[i][2] = hist[j][2]

\* two runs of rounded rectangles with equal params, with a run of
\* another test and quantity between them
RunsReplayFromSeedWitness ==
    /\ Len(hist) = 3
    /\ hist[1][1] = hist[3][1]
    /\ hist[1][1].test = "FillRoundU"
    /\ hist[1][1].quantity = MaxQuantity
    /\ hist[2][1].test = "FillTriangle"
    /\ hist[2][1].quantity = 1
    /\ Len(hist[3][2]) = 4 * MaxQuantity

\* C8: after rewind(), N draws return what N draws of the same calls
\* return on a BenchRandom freshly built from the same seed, for every N
\* and every sequence of calls; the seed a BenchRandom was built from
\* never changes, and rewind rebuilds the generator from it.
RewindReplays ==
    /\ [](twin # <<>> => (outRnd = outTwin /\ rnd = twin[1]))
    /\ [][rnd'.seed = rnd.seed]_vars

\* draws were made, the generator was rewound and drawn from again
RewindReplaysWitness ==
    /\ twin # <<>>
    /\ draws = MaxDraws
    /\ Len(outRnd) = 2
    /\ outRnd[1] # outRnd[2]

\* ------------------------------------------------------------------------
\* Properties of BaselineSum
\* ------------------------------------------------------------------------

ErrIndexes == {i \in 1..Len(pushed) : ~pushed[i].ok}

FirstErrIndex == CHOOSE i \in ErrIndexes : \A j \in ErrIndexes : i <= j

\* C9: errors are sticky: once an Err was pushed no later push changes the
\* running total, and finish returns an error that was pushed.
StickyError ==
    /\ [][ErrIndexes # {} => sum'.total = sum.total]_vars
    /\ []((fin # <<>> /\ ErrIndexes # {})
            => (~fin[1].ok /\ \E i \in ErrIndexes : fin[1].err = pushed[i].err))

\* a success, an error and a success were pushed and the sum finished
StickyErrorWitness ==
    /\ fin # <<>>
    /\ Len(pushed) = 3
    /\ pushed[1] = Ok(Num(1))
    /\ ~pushed[2].ok
    /\ pushed[3] = Ok(Frac(5, 2))

\* C10: finish returns the first Err pushed, whatever Ok and Err entries
\* were pushed after it.
FirstErrorWins ==
    (fin # <<>> /\ ErrIndexes # {}) => fin[1] = pushed[FirstErrIndex]

\* two different errors were pushed, with successes around them
FirstErrorWinsWitness ==
    /\ fin # <<>>
    /\ Len(pushed) = 4
    /\ pushed[1].ok
    /\ ~pushed[2].ok
    /\ pushed[3].ok
    /\ ~pushed[4].ok
    /\ pushed[2].err # pushed[4].err

RECURSIVE SumValues(_)
SumValues(entries) ==
    IF entries = <<>> THEN Num(0)
    ELSE Plus(entries[1].value, SumValues(Tail(entries)))

\* C11: when only Ok values were pushed, and at least one, finish returns
\* Ok of their sum.
OkSum ==
    (fin # <<>> /\ pushed # <<>> /\ ErrIndexes = {})
        => fin[1] = Ok(SumValues(pushed))

\* three successes, two of them nonzero, were pushed and the sum finished
OkSumWitness ==
    /\ fin # <<>>
    /\ Len(pushed) = 3
    /\ ErrIndexes = {}
    /\ pushed[1].value = Frac(5, 2)
    /\ pushed[2].value = Num(1)
    /\ pushed[3].value = Frac(5, 2)


\* ------------------------------------------------------------------------
\* The test filter
\* ------------------------------------------------------------------------

\* what a piece of the filter asks for: 0 nothing (blank), 1 to add, -1 to
\* subtract
PieceMode(piece) ==
    LET t == Trim(piece)
    IN  IF t = <<>> THEN 0 ELSE IF t[1] = "-" THEN -1 ELSE 1

\* the catalogued tests a piece names, in any case of letters
PieceTests(piece) ==
    LET t == Trim(piece)
        n == IF PieceMode(piece) = -1 THEN Tail(t) ELSE t
    IN  {T \in Range(TestKind_ALL) :
            Len(n) = 1 /\ AsciiLower(n[1]) = AsciiLower(TestKind_name(T))}

PieceModes == {PieceMode(filterToks[i]) : i \in DOMAIN filterToks} \ {0}

NamedTests == UNION {PieceTests(filterToks[i]) : i \in DOMAIN filterToks}

HasUnknown ==
    \E i \in DOMAIN filterToks :
        PieceMode(filterToks[i]) # 0 /\ PieceTests(filterToks[i]) = {}

NoRepeat(seq) == \A i, j \in DOMAIN seq : seq[i] = seq[j] => i = j

\* C13: a filter of additive names selects exactly the named tests, a
\* filter of subtractive names selects the default set without the named
\* tests, and no filter selects the whole default set.
FilterSelects ==
    parsed # <<>> =>
        LET r == parsed[1]
        IN  /\ test_list = <<>> => r.ok /\ r.value = TestKind_ALL
            /\ (test_list # <<>> /\ ~HasUnknown /\ PieceModes = {1}) =>
                   r.ok /\ Range(r.value) = NamedTests /\ NoRepeat(r.value)
            /\ (test_list # <<>> /\ ~HasUnknown /\ PieceModes = {-1}) =>
                   /\ r.ok
                   /\ Range(r.value) = Range(TestKind_ALL) \ NamedTests
                   /\ NoRepeat(r.value)

\* a subtractive filter of two names has left the third test selected
FilterSelectsWitness ==
    /\ parsed # <<>>
    /\ ~HasUnknown
    /\ PieceModes = {-1}
    /\ Cardinality(NamedTests) = 2
    /\ parsed[1].ok
    /\ Len(parsed[1].value) = NumTests - 2

\* C14: a filter that mixes additive and subtractive entries, in either
\* order, or names an unknown test is refused: parse_toggle_list returns
\* Err and no selection.
FilterRefused ==
    (parsed # <<>> /\ test_list # <<>> /\ (PieceModes = {1, -1} \/ HasUnknown)) =>
        /\ ~parsed[1].ok
        /\ parsed[1].err # ""
        /\ parsed[1].value = <<>>

\* a subtractive name followed by an additive one, both catalogued, was
\* refused for the mixing
FilterRefusedWitness ==
    /\ parsed # <<>>
    /\ ~HasUnknown
    /\ PieceModes = {1, -1}
    /\ \E i \in DOMAIN filterToks :
          /\ PieceMode(filterToks[i]) = -1
          /\ \A j \in 1..(i - 1) : PieceMode(filterToks[j]) = 0
    /\ parsed[1].err = "Cannot mix additive and subtractive entries"


\* ------------------------------------------------------------------------
\* The cells of a row
\* ------------------------------------------------------------------------

HasBaselineValue ==
    /\ rendered # <<>>
    /\ cell.baseline # <<>>
    /\ cell.baseline[1].ok

\* the class of delta = (v - b) / b * 100 by the rule of the claim: "green"
\* an improvement (delta >= 3), "red" a regression (delta <= -3),
\* "bright_black" noise; the fractions are compared by cross-multiplying
DeltaClass(v, b) ==
    IF b.tiny
    THEN IF v.num # 0 /\ Sign(v.num) = Sign(b.num) THEN "green" ELSE "red"
    ELSE LET top == (v.num * b.den - b.num * v.den) * 100
             bottom == b.num * v.den
         IN  IF (bottom > 0 /\ top >= 3 * bottom) \/ (bottom < 0 /\ top <= 3 * bottom)
             THEN "green"
             ELSE IF \/ (bottom > 0 /\ top <= -3 * bottom)
                     \/ (bottom < 0 /\ top >= -3 * bottom)
             THEN "red"
             ELSE "bright_black"

\* C17 as stated: for every baseline other than 0 the cell shows the delta,
\* classed as improvement, regression or noise with both bounds inclusive.
DeltaClassedWhenNonzero ==
    (HasBaselineValue /\ cell.baseline[1].value.num # 0) =>
        /\ rendered[1].note = "percent"
        /\ rendered[1].color = DeltaClass(cell.raw, cell.baseline[1].value)

\* C17: for a baseline b beyond f64::EPSILON in magnitude and a current
\* value v, delta = (v - b) / b * 100 is shown as an improvement iff
\* delta >= 3, as a regression iff delta <= -3 and as noise otherwise, both
\* bounds inclusive.
DeltaClassed ==
    (HasBaselineValue /\ ~WithinEpsilon(cell.baseline[1].value)) =>
        /\ rendered[1].note = "percent"
        /\ rendered[1].diff # <<>>
        /\ rendered[1].color = DeltaClass(cell.raw, cell.baseline[1].value)

\* 103 against a baseline of 100 was shown as an improvement
DeltaClassedWitness ==
    /\ HasBaselineValue
    /\ cell.raw = Num(103)
    /\ cell.baseline[1].value = Num(100)
    /\ rendered[1].color = "green"
    /\ rendered[1].diff = <<Num(3)>>

\* C18: a zero baseline and a missing baseline entry are shown as an
\* annotation, never as a delta: format_cell computes no quotient for them.
NoDeltaWithoutBaseline ==
    (rendered # <<>> /\ cell.baseline # <<>>) =>
        /\ ~cell.baseline[1].ok =>
               /\ rendered[1].note = cell.baseline[1].err
               /\ rendered[1].diff = <<>>
               /\ rendered[1].text = <<>>
        /\ (cell.baseline[1].ok /\ cell.baseline[1].value.num = 0) =>
               /\ rendered[1].note = "(baseline 0)"
               /\ rendered[1].diff = <<>>
               /\ rendered[1].text = <<>>

\* a nonzero throughput against a baseline of 0 was annotated
NoDeltaWithoutBaselineWitness ==
    /\ HasBaselineValue
    /\ cell.baseline[1].value = Num(0)
    /\ cell.raw = Num(100)
    /\ rendered[1].note = "(baseline 0)"


\* ------------------------------------------------------------------------
\* The baseline file
\* ------------------------------------------------------------------------

\* the places <<run, record, index>> of the baseline document whose rcpms
\* string is a number and stands, by the document's own ladder, for the
\* cell looked up
BaselineHits ==
    {h \in UNION {UNION {{<<r, c, i>> :
                             i \in DOMAIN blFile.runs[r].records[c].rcpms} :
                         c \in DOMAIN blFile.runs[r].records} :
                  r \in DOMAIN blFile.runs} :
        /\ blFile.runs[h[1]].name = blQuery[1]
        /\ blFile.runs[h[1]].records[h[2]].test_name = blQuery[2]
        /\ h[3] <= Len(blSizes)
        /\ blSizes[h[3]] = blQuery[3]
        /\ "scaled" \in DOMAIN blFile.runs[h[1]].records[h[2]].rcpms[h[3]]}

\* C20: Baseline::load keys the i-th rcpms entry of a record by the i-th
\* size of the baseline's own ladder; lookup returns a value iff such an
\* entry exists and is a number, and "missing baseline value" otherwise;
\* whatever sizes the ladder names, the load does not fail (it fails only
\* for a file that is absent or malformed, a label naming no size included).
BaselineByOwnLadder ==
    /\ blLoaded # <<>> =>
          (blLoaded[1].ok <=>
              (blFile.state = "json" /\ \A i \in DOMAIN blSizes : blSizes[i] # -1))
    /\ blFound # <<>> =>
          /\ blFound[1].ok <=> BaselineHits # {}
          /\ ~blFound[1].ok => blFound[1].err = MissingBaseline
          /\ blFound[1].ok =>
                \E h \in BaselineHits :
                    <<blFound[1].value>> =
                        ParseF64(blFile.runs[h[1]].records[h[2]].rcpms[h[3]])

\* with a ladder of 16 then 8, the cell of size 8 was found in the second
\* rcpms entry and the cell of size 32 would be missing
BaselineByOwnLadderWitness ==
    /\ blFound # <<>>
    /\ blSizes = <<16, 8>>
    /\ blQuery = <<"Vello CPU ST", "FillRectA", 8>>
    /\ Len(blFile.runs[1].records) = 1
    /\ blFile.runs[1].records[1] = [test_name |-> "FillRectA", rcpms |-> <<S96, S104>>]
    /\ blFound[1].ok
    /\ blFound[1].value = Num(104)


\* ------------------------------------------------------------------------
\* The run of the harness
\* ------------------------------------------------------------------------

\* the tests the pieces of a filter name, each once, in the order named
RECURSIVE Mentioned(_, _)
Mentioned(pieces, seen) ==
    IF pieces = <<>> THEN <<>>
    ELSE LET new == PieceTests(pieces[1]) \ seen
         IN  (IF new = {} THEN <<>> ELSE <<CHOOSE t \in new : TRUE>>)
             \o Mentioned(Tail(pieces), seen \cup new)

\* the tests a valid filter selects, in the order it selects them: as
\* named by an additive filter, as catalogued otherwise
SelectionOrder(list) ==
    LET pieces == Split(list[1])
        named == UNION {PieceTests(pieces[i]) : i \in DOMAIN pieces}
        Kept(t) == t \notin named
    IN  IF list = <<>> THEN TestKind_ALL
        ELSE IF \E i \in DOMAIN pieces : PieceMode(pieces[i]) = -1
        THEN SelectSeq(TestKind_ALL, Kept)
        ELSE Mentioned(pieces, {})

\* C12: within one backend the rows and JsonRecords come in the order the
\* filter selected the tests, and within one test the sizes come in ladder
\* order.
RowsInSelectionOrder ==
    app.config # <<>> =>
        LET order == SelectionOrder(app.args.test_list)
        IN  /\ \A i \in DOMAIN app.records :
                  /\ i <= Len(order)
                  /\ app.records[i].test_name = TestKind_name(order[i])
            /\ app.apc = "measure" =>
                  /\ app.ti <= Len(order)
                  /\ params.test = order[app.ti]
                  /\ params.shape_size = BENCH_SHAPE_SIZES[app.si]
                  /\ Len(app.cpms_strings) = app.si - 1

\* the part of C12 that holds: the rows and records follow config.tests,
\* the sizes the ladder
RowsInConfigOrder ==
    app.config # <<>> =>
        LET order == app.config[1].tests
        IN  /\ \A i \in DOMAIN app.records :
                  app.records[i].test_name = TestKind_name(order[i])
            /\ app.apc = "measure" =>
                  /\ params.test = order[app.ti]
                  /\ params.shape_size = BENCH_SHAPE_SIZES[app.si]
                  /\ Len(app.cpms_strings) = app.si - 1


\* the filter of the command line mixes modes or names an unknown test
FilterInvalid ==
    /\ app.args.test_list # <<>>
    /\ LET pieces == Split(app.args.test_list[1])
           modes == {PieceMode(pieces[i]) : i \in DOMAIN pieces} \ {0}
       IN  \/ modes = {1, -1}
           \/ \E i \in DOMAIN pieces :
                 PieceMode(pieces[i]) # 0 /\ PieceTests(pieces[i]) = {}

\* the baseline file of the command line is absent or malformed
BaselineUnusable ==
    /\ app.args.baseline # <<>>
    /\ \/ app.args.baseline[1].state # "json"
       \/ \E i \in DOMAIN app.args.baseline[1].sizes :
             app.args.baseline[1].sizes[i] \in {LBad.label, LBig.label}

\* C15: with an invalid filter or an absent or malformed baseline file,
\* app::run returns an error before any Backend::run call and without
\* writing the result file.
FailFast ==
    (FilterInvalid \/ BaselineUnusable) =>
        /\ app.apc \in {"from_args", "new", "exit"}
        /\ app.apc = "exit" => ~app.result[1].ok
        /\ app.runlog = <<>>
        /\ app.written = <<>>
        /\ app.stdout = <<>>

\* a run with a valid filter and a baseline file with a bad size label
\* has returned the error of the load
FailFastWitness ==
    /\ ~FilterInvalid
    /\ app.args.baseline # <<>>
    /\ app.args.baseline[1].state = "json"
    /\ BaselineUnusable
    /\ app.apc = "exit"
    /\ app.result = <<AppErr("invalid baseline size")>>
    /\ app.runlog = <<>>


\* what a run measures and records: where it is, the Backend::run calls
\* made, the records and rcpms strings kept, the documents written and the
\* Result returned
Measurement(a) ==
    [apc |-> a.apc, bi |-> a.bi, ti |-> a.ti, si |-> a.si,
     runlog |-> a.runlog, records |-> a.records,
     cpms_strings |-> a.cpms_strings, totals |-> a.totals, json |-> a.json,
     written |-> a.written, images |-> a.images, result |-> a.result]

\* the baseline entries of the cells printed so far that were missing
\* or zero
AnnotatedCells ==
    {rc \in UNION {{<<r, c>> : c \in DOMAIN app.stdout[r].columns} :
                   r \in {q \in DOMAIN app.stdout :
                             "columns" \in DOMAIN app.stdout[q]}} :
        app.stdout[rc[1]].columns[rc[2]].note \in {MissingBaseline, "(baseline 0)"}}

\* C16: a missing or zero baseline entry never aborts the run and never
\* changes what is measured or recorded: with a baseline loaded, the
\* Backend::run calls, the rcpms strings and records, and the outcome are
\* those of the same run without a baseline.
BaselineLeavesMeasurement ==
    app.baseline # <<>> => Measurement(app) = Measurement(shadow)

\* a run with a baseline has written its document after printing cells
\* with a missing and with a zero baseline entry
BaselineLeavesMeasurementWitness ==
    /\ app.baseline # <<>>
    /\ app.apc = "exit"
    /\ app.result = <<AppOk>>
    /\ Len(app.written) = 1
    /\ Len(app.runlog) > 2
    /\ \E rc \in AnnotatedCells :
          app.stdout[rc[1]].columns[rc[2]].note = MissingBaseline
    /\ \E rc \in AnnotatedCells :
          app.stdout[rc[1]].columns[rc[2]].note = "(baseline 0)"


\* the rows printed that are Total rows, and for a Total row the rows of
\* the tests of its backend: those after the header before it
TotalRows == {r \in DOMAIN app.stdout : app.stdout[r].row = "Total"}

HeaderBefore(r) ==
    CHOOSE h \in 1..r :
        /\ app.stdout[h].row = "header"
        /\ \A k \in (h + 1)..r : app.stdout[k].row # "header"

RECURSIVE SumRaw(_, _)
SumRaw(rows, i) ==
    IF rows = <<>> THEN Num(0)
    ELSE Plus(rows[1].cells[i].raw, SumRaw(Tail(rows), i))

\* the sum with sticky error of a list of lookup results, as the claim
\* words it: the first error if there is one, Ok of the sum otherwise
StickySumAsStated(entries) ==
    LET errs == {k \in DOMAIN entries : ~entries[k].ok}
    IN  IF errs # {} THEN entries[CHOOSE k \in errs : \A j \in errs : k <= j]
        ELSE Ok(SumValues(entries))

\* the same, with the sum of no entry at all a missing value
StickySum(entries) ==
    IF entries = <<>> THEN Err(MissingBaseline) ELSE StickySumAsStated(entries)

\* the Total row r sums the test rows of its backend, with Sticky(_) for
\* the baseline entries
TotalRowSums(r, Sticky(_)) ==
    LET h == HeaderBefore(r)
        rows == SubSeq(app.stdout, h + 1, r - 1)
        tests == app.config[1].tests
        sizes == app.config[1].sizes
    IN  /\ Len(rows) = Len(tests)
        /\ Len(app.stdout[r].cells) = Len(sizes)
        /\ \A i \in DOMAIN sizes :
              /\ app.stdout[r].cells[i].raw = SumRaw(rows, i)
              /\ \A k \in DOMAIN rows :
                    /\ rows[k].row = TestKind_name(tests[k])
                    /\ app.baseline # <<>> =>
                          rows[k].cells[i].baseline =
                              <<Baseline_lookup(app.baseline[1],
                                                app.stdout[h].name,
                                                TestKind_name(tests[k]),
                                                sizes[i])>>
              /\ app.stdout[r].cells[i].baseline =
                    IF app.baseline = <<>> THEN <<>>
                    ELSE <<Sticky([k \in DOMAIN rows |->
                                      rows[k].cells[i].baseline[1]])>>

\* C19 as stated: the baseline comparison of the Total row at each size is
\* the first failed lookup among the selected tests, and Ok of the sum of
\* the baseline values when every lookup succeeded; its current value is
\* the sum of the throughputs.
TotalRowAsStated == \A r \in TotalRows : TotalRowSums(r, StickySumAsStated)

\* C19: the same when at least one test is selected; with no test selected
\* the comparison of the Total row is the "missing baseline value" error.
TotalRow == \A r \in TotalRows : TotalRowSums(r, StickySum)

\* a Total row over two tests was printed with a sum of two baseline
\* values at one size and an error at another
TotalRowWitness ==
    \E r \in TotalRows :
        /\ app.baseline # <<>>
        /\ r - HeaderBefore(r) > 2
        /\ \E i \in DOMAIN app.stdout[r].cells :
              /\ app.stdout[r].cells[i].baseline[1].ok
              /\ app.stdout[r].cells[i].baseline[1].value = Plus(Num(96), Num(0))
              /\ app.stdout[r].cells[i].raw.num > 0
        /\ \E i \in DOMAIN app.stdout[r].cells :
              ~app.stdout[r].cells[i].baseline[1].ok


\* ------------------------------------------------------------------------
\* The records of the result document
\* ------------------------------------------------------------------------

\* the Backend::run calls seen for the cell (backend, test, size)
CellRuns(b, t, s) ==
    {k \in DOMAIN app.runlog :
        /\ app.runlog[k].backend = b
        /\ app.runlog[k].test = t
        /\ app.runlog[k].shape_size = s}

\* the throughput these calls measured: the quantity of the last call over
\* the least duration reported for that quantity
CellValue(b, t, s) ==
    LET K == CellRuns(b, t, s)
        last == CHOOSE k \in K : \A j \in K : j <= k
        q == app.runlog[last].quantity
        D == {app.runlog[k].duration : k \in {j \in K : app.runlog[j].quantity = q}}
        d == CHOOSE x \in D : \A y \in D : x <= y
    IN  IF d = 0 THEN Num(0) ELSE Frac(q * 1000, d)

\* the record of test t of backend b: the names, and a throughput string
\* per size of the ladder, in its order
RecordOf(b, t) ==
    [test_name |-> TestKind_name(t), comp_op |-> "SrcOver", style |-> "Solid",
     rcpms |-> [i \in DOMAIN BENCH_SHAPE_SIZES |->
                   format_cpms(CellValue(b, t, BENCH_SHAPE_SIZES[i]))]]

\* C21: a run of the document holds exactly one record per selected test,
\* in their order, and the record's rcpms list has one formatted throughput
\* per ladder size, rcpms[i] being the cell measured at sizes[i]; the same
\* holds of the records gathered so far for the backend being measured.
OneRecordPerPair ==
    app.json # <<>> =>
        LET tests == app.config[1].tests
            runs == app.json[1].runs
        IN  /\ \A k \in DOMAIN runs :
                  /\ runs[k].name = app.backends[k].name
                  /\ runs[k].records =
                        [j \in DOMAIN tests |-> RecordOf(runs[k].name, tests[j])]
            /\ app.apc \in {"test", "cell", "measure"} =>
                  /\ Len(app.records) <= Len(tests)
                  /\ \A j \in DOMAIN app.records :
                        app.records[j] =
                            RecordOf(app.backends[app.bi].name, tests[j])

\* the document was written with two runs of two records each, and a
\* record whose two sizes were measured differently
OneRecordPerPairWitness ==
    /\ app.apc = "exit"
    /\ Len(app.written) = 1
    /\ Len(app.written[1].runs) = 2
    /\ \A k \in DOMAIN app.written[1].runs :
          /\ Len(app.written[1].runs[k].records) = 2
          /\ \E j \in DOMAIN app.written[1].runs[k].records :
                LET rcpms == app.written[1].runs[k].records[j].rcpms
                IN  rcpms[1] # rcpms[Len(rcpms)]


\* ------------------------------------------------------------------------
\* The order of the Backend::run calls
\* ------------------------------------------------------------------------

\* the cell a logged call belongs to: the indexes of its backend, of its
\* params.test among the selected tests and of its params.shape_size in
\* the ladder (0 when it is none of them)
IndexOf(seq, x) ==
    IF \E i \in DOMAIN seq : seq[i] = x
    THEN CHOOSE i \in DOMAIN seq : seq[i] = x
    ELSE 0

CellKey(e) ==
    <<IndexOf([i \in DOMAIN app.backends |-> app.backends[i].name], e.backend),
      IndexOf(app.config[1].tests, e.test),
      IndexOf(app.config[1].sizes, e.shape_size)>>

LexLeq(x, y) ==
    \/ x[1] < y[1]
    \/ x[1] = y[1] /\ x[2] < y[2]
    \/ x[1] = y[1] /\ x[2] = y[2] /\ x[3] <= y[3]

\* C22: the Backend::run calls are made cell by cell in lexicographic
\* (backend, test, size) order, never returning to an earlier cell, and
\* every call made inside a cell carries that cell's test and size in its
\* params.
CellsInOrder ==
    /\ \A k \in DOMAIN app.runlog :
          \A i \in 1..3 : CellKey(app.runlog[k])[i] > 0
    /\ \A k \in 1..(Len(app.runlog) - 1) :
          LexLeq(CellKey(app.runlog[k]), CellKey(app.runlog[k + 1]))
    /\ app.apc = "measure" =>
          /\ calls <= Len(app.runlog)
          /\ \A k \in (Len(app.runlog) - calls + 1)..Len(app.runlog) :
                CellKey(app.runlog[k]) = <<app.bi, app.ti, app.si>>
          /\ \A k \in 1..(Len(app.runlog) - calls) :
                CellKey(app.runlog[k]) # <<app.bi, app.ti, app.si>>

\* a run of two backends, two tests and two sizes is over, with calls made
\* in each of its eight cells, and more than one call in some cell
CellsInOrderWitness ==
    /\ app.apc = "exit"
    /\ app.result = <<AppOk>>
    /\ Cardinality({CellKey(app.runlog[k]) : k \in DOMAIN app.runlog}) = 8
    /\ Len(app.runlog) > 8


\* ------------------------------------------------------------------------
\* The result document
\* ------------------------------------------------------------------------

\* the names of the backends, in the order of create_backends
BackendNames == [i \in DOMAIN app.backends |-> app.backends[i].name]

\* C23: the result document is written at most once, only by a run that
\* ends without error and only after the last backend, and a run that ends
\* without error has written it; JsonWriter::write is reached, to succeed
\* or to fail, holding one run per backend in the order of the backends,
\* push_run having been called once for each backend that has finished.
FlushedOnce ==
    /\ Len(app.written) <= 1
    /\ app.written # <<>> =>
          /\ app.apc = "exit"
          /\ app.result = <<AppOk>>
          /\ [k \in DOMAIN app.written[1].runs |-> app.written[1].runs[k].name]
                = BackendNames
    /\ (app.apc = "exit" /\ app.result = <<AppOk>>) => Len(app.written) = 1
    /\ (app.apc = "exit" /\ app.result = <<AppErr("write json")>>) =>
          Len(app.json[1].runs) = Len(app.backends)
    /\ app.apc \in {"backend", "test", "cell", "measure"} =>
          /\ Len(app.json[1].runs) = app.bi - 1
          /\ \A k \in DOMAIN app.json[1].runs :
                app.json[1].runs[k].name = app.backends[k].name

\* a run of two backends has ended with its document written
FlushedOnceWitness ==
    /\ app.apc = "exit"
    /\ app.written # <<>>
    /\ Len(app.written[1].runs) = 2
    /\ Len(app.backends) = 2
    /\ app.written[1].runs[1].name # app.written[1].runs[2].name
    /\ app.written[1].runs[2].records # <<>>


\* ------------------------------------------------------------------------
\* The names of the backends
\* ------------------------------------------------------------------------

\* the name that stands for a thread count
NameOfCount(n) ==
    IF n = 0 THEN "Vello CPU ST" ELSE "Vello CPU " \o ToString(n) \o "T"

\* C24: whatever the --threads list, with repeats or empty, the backends
\* created have pairwise distinct names, each the name of its thread
\* count, distinct counts having distinct names: one backend per count
\* given, and a single-threaded one for the empty list.
BackendNamesUnique ==
    thr.pc = "created" =>
        LET names == [i \in DOMAIN thr.backends |-> thr.backends[i].name]
            given == IF thr.given = <<>> THEN {0} ELSE Range(thr.given)
        IN  /\ names # <<>>
            /\ \A i, j \in DOMAIN names : i # j => names[i] # names[j]
            /\ Range(names) = {NameOfCount(n) : n \in given}
            /\ \A m, n \in ThreadCounts :
                  m # n => NameOfCount(m) # NameOfCount(n)

\* backends were created for a list that repeats a count and names
\* another after it
BackendNamesUniqueWitness ==
    /\ thr.pc = "created"
    /\ Len(thr.given) = 3
    /\ thr.given[1] = thr.given[3]
    /\ thr.given[2] < thr.given[1]
    /\ Len(thr.backends) = 2


\* ------------------------------------------------------------------------
\* The throughput of a cell
\* ------------------------------------------------------------------------

\* C25: the throughput kept for a cell is quantity * 1000 / duration of
\* the (duration, quantity) that run_single_test returned for it when the
\* duration is above 0, and exactly 0 when the duration is 0, whatever the
\* quantity; nothing is divided by 0.
ThroughputRule ==
    (app.apc = "cell" /\ app.display_cells # <<>>) =>
        LET c == app.display_cells[Len(app.display_cells)]
            duration == ret[1]
            used_quantity == ret[2]
        IN  /\ c.raw.den > 0
            /\ duration = 0 => c.raw = Num(0)
            /\ duration > 0 => c.raw = Frac(used_quantity * 1000, duration)
            /\ c.formatted = format_cpms(c.raw)

\* a cell measured at a duration above 0 is followed by one whose best
\* duration is 0, for a quantity above 0
ThroughputRuleWitness ==
    /\ app.apc = "cell"
    /\ Len(app.display_cells) = 2
    /\ app.display_cells[1].raw.num > 0
    /\ ret[1] = 0
    /\ ret[2] > 0


\* ------------------------------------------------------------------------
\* The decimals of a throughput
\* ------------------------------------------------------------------------

Below(a, b) == ~LessEq(b, a)

\* the decimals by magnitude as the claim words them, and with the values
\* 0.1 and 1 counted with the smaller ones
DecimalsAsStated(v) ==
    IF Below(v, Frac(1, 10)) THEN 4
    ELSE IF Below(v, Num(1)) THEN 3
    ELSE IF Below(v, Num(10)) THEN 2
    ELSE IF Below(v, Num(100)) THEN 1
    ELSE 0

Decimals(v) ==
    IF LessEq(v, Frac(1, 10)) THEN 4
    ELSE IF LessEq(v, Num(1)) THEN 3
    ELSE IF Below(v, Num(10)) THEN 2
    ELSE IF Below(v, Num(100)) THEN 1
    ELSE 0

\* the cells of the rows printed
PrintedCells ==
    {rc \in (DOMAIN app.stdout) \X (1..Len(BENCH_SHAPE_SIZES)) :
        app.stdout[rc[1]].row # "header"}

\* every cell printed shows its value rounded to D(value) decimals
FormattedBy(D(_)) ==
    \A rc \in PrintedCells :
        LET c == app.stdout[rc[1]].cells[rc[2]]
        IN  c.formatted = Fixed(c.raw, D(c.raw))

\* C26 as stated: a throughput is shown with 4 decimals when below 0.1,
\* 3 when below 1, 2 when below 10, 1 when below 100 and none otherwise.
DecimalsByMagnitudeAsStated == FormattedBy(DecimalsAsStated)

\* C26: a throughput is shown with 4 decimals when at most 0.1, 3 when
\* above 0.1 and at most 1, 2 when above 1 and below 10, 1 when at least
\* 10 and below 100, and none otherwise.
DecimalsByMagnitude == FormattedBy(Decimals)

\* rows were printed with cells of each number of decimals, one of them
\* for the value 0.1 and one for the value 1
DecimalsByMagnitudeWitness ==
    /\ \A d \in 0..4 :
          \E rc \in PrintedCells :
              app.stdout[rc[1]].cells[rc[2]].formatted.decimals = d
    /\ \E rc \in PrintedCells :
          app.stdout[rc[1]].cells[rc[2]].formatted = Fixed(Frac(1, 10), 4)
    /\ \E rc \in PrintedCells :
          app.stdout[rc[1]].cells[rc[2]].formatted = Fixed(Num(1), 3)


\* ------------------------------------------------------------------------
\* The range of the quantity
\* ------------------------------------------------------------------------

\* C27: in auto mode the quantity, the quantity given to Backend::run and
\* the quantity returned never exceed 10,000,000, whatever the durations:
\* a scale-up is applied only to a quantity of at most 1,000,000, by a
\* factor of at most 10, so the 32-bit product never overflows.
QuantityBounded ==
    configured_quantity = 0 =>
        /\ quantity <= 10 * QUANTITY_CAP
        /\ params.quantity <= 10 * QUANTITY_CAP
        /\ lastQ <= 10 * QUANTITY_CAP
        /\ ret # <<>> => ret[2] <= 10 * QUANTITY_CAP
        /\ (pc = "auto" /\ steps > 0) =>
              \E f \in {2, 3, 10} :
                  /\ quantity = lastQ * f
                  /\ lastQ <= QUANTITY_CAP

\* an auto-mode call has returned the quantity 10,000,000 after runs at it
QuantityBoundedWitness ==
    /\ configured_quantity = 0
    /\ pc = "done"
    /\ ret[2] = 10 * QUANTITY_CAP
    /\ lastQ = 10 * QUANTITY_CAP
    /\ steps > 2


\* ------------------------------------------------------------------------
\* What a cell leaves to the next
\* ------------------------------------------------------------------------

\* the logged calls that are the first of their cell
FirstCalls ==
    {k \in DOMAIN app.runlog :
        k = 1 \/ CellKey(app.runlog[k]) # CellKey(app.runlog[k - 1])}

\* C28: in auto mode the first Backend::run of every cell is made at
\* quantity 25, whatever quantity the cell before settled on and left in
\* the shared params; during run_single_test the params differ from those
\* of the cell in their quantity only, and when it has returned
\* params.quantity is the quantity returned.
NoLeakBetweenCells ==
    app.config # <<>> =>
        LET config == app.config[1]
        IN  /\ config.quantity = 0 =>
                  \A k \in FirstCalls :
                      app.runlog[k].quantity = INITIAL_QUANTITY
            /\ app.apc = "measure" =>
                  /\ [params EXCEPT !.quantity = 0] =
                        [NewParams(config) EXCEPT
                            !.test = config.tests[app.ti],
                            !.shape_size = config.sizes[app.si],
                            !.quantity = 0]
                  /\ pc = "done" => params.quantity = ret[2]

\* a cell that settled on a quantity above 25 is followed by a cell whose
\* first call is made at 25
NoLeakBetweenCellsWitness ==
    /\ app.config # <<>>
    /\ app.config[1].quantity = 0
    /\ \E k \in FirstCalls :
          /\ k > 1
          /\ app.runlog[k - 1].quantity > INITIAL_QUANTITY
          /\ app.runlog[k].quantity = INITIAL_QUANTITY


\* ------------------------------------------------------------------------
\* The least number of runs
\* ------------------------------------------------------------------------

\* C29: run_single_test returns after at least one Backend::run, with
\* min_runs = 0 as with min_runs = 1, and the duration it returns is one
\* the backend reported, never the u64::MAX that `best` starts from.
AtLeastOneRun ==
    pc = "done" =>
        /\ calls >= 1
        /\ calls >= required_runs
        /\ required_runs = (IF min_runs = 0 THEN 1 ELSE min_runs)
        /\ ret[1] # U64_MAX
        /\ ret[1] \in Durations
        /\ ret[1] <= lastD

\* a call with min_runs = 0 and a fixed quantity has returned after its
\* single run
AtLeastOneRunWitness ==
    /\ pc = "done"
    /\ min_runs = 0
    /\ configured_quantity > 0
    /\ calls = 1
    /\ ret[1] = lastD


\* ------------------------------------------------------------------------
\* A filter that names nothing
\* ------------------------------------------------------------------------

\* --tests was given and none of its pieces holds more than blanks
BlankFilter ==
    /\ app.args.test_list # <<>>
    /\ \A i \in DOMAIN Split(app.args.test_list[1]) :
          Trim(Split(app.args.test_list[1])[i]) = <<>>

\* C30: a --tests value in which no piece names anything is accepted and
\* selects no test at all, not the default tests: no Backend::run is made,
\* each backend prints its header and its Total row only and pushes a run
\* of no record, and the document written holds one such run per backend.
BlankFilterSelectsNothing ==
    (BlankFilter /\ app.apc # "from_args") =>
        /\ app.config # <<>>
        /\ app.config[1].tests = <<>>
        /\ app.result # <<>> =>
              \/ app.result = <<AppOk>>
              \/ app.result = <<AppErr("write json")>>
              \/ app.args.baseline # <<>> /\ app.baseline = <<>>
        /\ app.runlog = <<>>
        /\ app.images = <<>>
        /\ \A r \in DOMAIN app.stdout :
              app.stdout[r].row = (IF r % 2 = 1 THEN "header" ELSE "Total")
        /\ app.json # <<>> =>
              /\ \A k \in DOMAIN app.json[1].runs :
                    app.json[1].runs[k].records = <<>>
              /\ Len(app.stdout) \in {2 * Len(app.json[1].runs),
                                      2 * Len(app.json[1].runs) + 1}
        /\ app.written # <<>> =>
              /\ Len(app.written[1].runs) = Len(app.backends)
              /\ Len(app.stdout) = 2 * Len(app.backends)

\* the run of two backends under the filter "" has ended with two Total
\* rows printed and a document of two runs of no record
BlankFilterSelectsNothingWitness ==
    /\ app.args.test_list = <<<<>>>>
    /\ BlankFilter
    /\ app.apc = "exit"
    /\ Len(app.written) = 1
    /\ Len(app.written[1].runs) = 2
    /\ app.written[1].runs[2].records = <<>>
    /\ Len(app.stdout) = 4

====
